---------------------------- MODULE Spec2Model ----------------------------
(***************************************************************************)
(* ShamsiTray: the tray controller (src/src/core/tray_controller.py) and   *)
(* the event lookup of the calendar view                                   *)
(* (src/src/ui/windows/calendar_window.py) as a state machine.             *)
(*                                                                         *)
(* The controller is single threaded: every Qt slot runs to completion, so *)
(* each handler is one action.  A handler is written as the composition of *)
(* the methods it calls, each an operator from a controller record to a    *)
(* controller record; the record's field `steps` lists the calls the       *)
(* handler made, in order, and `crashed` is set where Python raises an     *)
(* exception that nothing catches.                                         *)
(***************************************************************************)
EXTENDS Integers, Sequences, FiniteSets, TLC

(***************************************************************************)
(* Bounds of the model.                                                    *)
(***************************************************************************)
MaxOps == 2
MaxTimers == 2

\* buffer_ms of schedule_next_midnight_check
BufferMs == 500
\* milliseconds in a day (datetime.timedelta(days=1))
DayMs == 86400000

Years == {1402, 1403, 1404}
Texts == {"A", "B"}
\* the times of day at which a handler may run: datetime.now() as whole
\* milliseconds after midnight plus the microseconds within the millisecond
Midnight == [ms |-> 0, us |-> 0]
TimesOfDay == {Midnight, [ms |-> DayMs - 1, us |-> 999]}
TimerIds == 1..MaxTimers

(***************************************************************************)
(* Jalali dates (jdatetime.date): validity, order, weekday.                *)
(***************************************************************************)
NoDate == [year |-> 0, month |-> 0, day |-> 0]

\* jdatetime's month lengths and its 33-year leap rule (date.isleap)
j_days_in_month == <<31, 31, 31, 31, 31, 31, 30, 30, 30, 30, 30, 29>>
isleap(year) == (year % 33) \in {1, 5, 9, 13, 17, 22, 26, 30}

\* jdatetime.date(year, month, day) succeeds (no ValueError)
ValidJalali(year, month, day) ==
    /\ 1 <= year /\ year <= 9377
    /\ 1 <= month /\ month <= 12
    /\ 1 <= day
    /\ day <= j_days_in_month[month] + (IF month = 12 /\ isleap(year) THEN 1 ELSE 0)

\* date_utils.is_jalali_leap_year: jdatetime.date.is_leap(year) raises
\* AttributeError (it is a method of a date), so the answer is whether
\* jdatetime.date(year, 12, 30) can be built
is_jalali_leap_year(year) == ValidJalali(year, 12, 30)

\* faulty variant: Esfand has 30 days in every year
days_in_month_esfand_30(year, month) ==
    IF 1 <= month /\ month <= 6 THEN 31
    ELSE IF 7 <= month /\ month <= 12 THEN 30
    ELSE 0

\* _get_days_in_month, Jalali branch
days_in_month(year, month) ==
    IF 1 <= month /\ month <= 6 THEN 31
    ELSE IF 7 <= month /\ month <= 11 THEN 30
    ELSE IF month = 12 THEN (IF is_jalali_leap_year(year) THEN 30 ELSE 29)
    ELSE 0

DateLt(a, b) ==
    \/ a.year < b.year
    \/ a.year = b.year /\ a.month < b.month
    \/ a.year = b.year /\ a.month = b.month /\ a.day < b.day

\* day count of jdatetime's togregorian(): 33-year cycles counted from year 979
DaysBeforeMonth(month) == IF month <= 7 THEN (month - 1) * 31 ELSE 186 + (month - 7) * 30

DayNumber(d) ==
    LET y == d.year - 979
    IN  365 * y + (y \div 33) * 8 + (((y % 33) + 3) \div 4)
        + DaysBeforeMonth(d.month) + (d.day - 1)

\* jdatetime.date.weekday(): 0 = Saturday .. 6 = Friday
\* (1403-01-01 is a Wednesday, index 4)
Weekday(d) == (DayNumber(d) - DayNumber([year |-> 1403, month |-> 1, day |-> 1]) + 4) % 7

Dates == {d \in [year : Years, month : {1}, day : {1}] : ValidJalali(d.year, d.month, d.day)}

(***************************************************************************)
(* Event keys: strftime("%Y-%m-%d"), strftime("0000-%m-%d") and            *)
(* strptime(key, "%Y-%m-%d"), on strings as sequences of characters.       *)
(***************************************************************************)
DigitChars == <<"0", "1", "2", "3", "4", "5", "6", "7", "8", "9">>
IsDigit(c) == \E i \in 1..10 : DigitChars[i] = c
DigitVal(c) == (CHOOSE i \in 1..10 : DigitChars[i] = c) - 1

Pad2(n) == <<DigitChars[((n \div 10) % 10) + 1], DigitChars[(n % 10) + 1]>>
Pad4(n) == Pad2(n \div 100) \o Pad2(n % 100)

\* faulty variant: the year is written with two digits (%y)
SpecificKeyShortYear(d) ==
    Pad2(d.year % 100) \o <<"-">> \o Pad2(d.month) \o <<"-">> \o Pad2(d.day)

SpecificKey(d) == Pad4(d.year) \o <<"-">> \o Pad2(d.month) \o <<"-">> \o Pad2(d.day)
YearlyKey(d) == <<"0", "0", "0", "0", "-">> \o Pad2(d.month) \o <<"-">> \o Pad2(d.day)

\* a key that is no date string at all
BadKey == <<"x">>

MatchesFormat(key) ==
    /\ Len(key) = 10
    /\ key[5] = "-" /\ key[8] = "-"
    /\ \A i \in {1, 2, 3, 4, 6, 7, 9, 10} : IsDigit(key[i])

\* strptime(...).date(): [ok |-> FALSE] stands for the ValueError
StrpTime(key) ==
    IF ~MatchesFormat(key) THEN [ok |-> FALSE, date |-> NoDate]
    ELSE LET y == 1000 * DigitVal(key[1]) + 100 * DigitVal(key[2])
                  + 10 * DigitVal(key[3]) + DigitVal(key[4])
             m == 10 * DigitVal(key[6]) + DigitVal(key[7])
             d == 10 * DigitVal(key[9]) + DigitVal(key[10])
         IN  IF ValidJalali(y, m, d)
             THEN [ok |-> TRUE, date |-> [year |-> y, month |-> m, day |-> d]]
             ELSE [ok |-> FALSE, date |-> NoDate]

(***************************************************************************)
(* Stored values.  A persisted value is a bare string (the oldest shape),  *)
(* a dict with some of the fields text / yearly / remove_after_finish, or  *)
(* anything else QSettings can hold.                                       *)
(***************************************************************************)
NoneText == "<None>"

StrValue(t) == [kind |-> "str", text |-> t]
DictValue(d) == [kind |-> "dict", d |-> d]
OtherValue == [kind |-> "other"]

\* the dict add_user_event writes
Record(text, yearly, raf) ==
    DictValue([text |-> text, yearly |-> yearly, remove_after_finish |-> raf])

\* dict.get(field, default)
Get(v, field, default) == IF field \in DOMAIN v.d THEN v.d[field] ELSE default

NoEvents == [k \in {} |-> OtherValue]
Without(events, keys) == [k \in DOMAIN events \ keys |-> events[k]]
With(events, key, value) ==
    [k \in DOMAIN events \cup {key} |-> IF k = key THEN value ELSE events[k]]

(***************************************************************************)
(* The controller record.                                                  *)
(*   settings         QSettings' value under UserData/Events               *)
(*   user_events      self.user_events (the calendar view shares the dict) *)
(*   widget           self.calendar_widget exists                          *)
(*   current_date     the view's current_date: the date last rendered      *)
(*   icon, tooltip    what setIcon / setToolTip last showed                *)
(*   midnight_timer   self._midnight_timer (0: no such attribute)          *)
(*   timers           the active single-shot timers and their intervals    *)
(***************************************************************************)
NoIcon == [day |-> 0, color |-> "none"]
NoTooltip == [weekday |-> 0, date |-> NoDate, holidays |-> <<>>, event |-> NoneText]
NoTimers == [t \in {} |-> 0]

Log(s, step) == [s EXCEPT !.steps = Append(@, step)]
Raise(s, step) == [Log(s, step) EXCEPT !.crashed = TRUE]

\* faulty variant: the save does not reach the persistent store
SaveUserEventsNoWrite(s) == IF s.crashed THEN s ELSE Log(s, "setValue")

\* _save_user_events
SaveUserEvents(s) ==
    IF s.crashed THEN s
    ELSE Log([s EXCEPT !.settings = s.user_events], "setValue")

\* PersianCalendarWidget.set_user_events: the view keeps the same dict
SetUserEvents(s) == IF s.crashed THEN s ELSE Log(s, "set_user_events")

(***************************************************************************)
(* _load_user_events: migration of the old shapes.                         *)
(***************************************************************************)
NeedsMigration(v) ==
    \/ v.kind = "str"
    \/ v.kind = "dict" /\ "remove_after_finish" \notin DOMAIN v.d

\* faulty variant: a bare string becomes a yearly record
MigrateStringAsYearly(v) ==
    IF v.kind = "str"
    THEN Record(v.text, TRUE, FALSE)
    ELSE IF v.kind = "dict" /\ "remove_after_finish" \notin DOMAIN v.d
    THEN DictValue([f \in DOMAIN v.d \cup {"remove_after_finish"} |->
                        IF f = "remove_after_finish" THEN FALSE ELSE v.d[f]])
    ELSE v

Migrate(v) ==
    IF v.kind = "str"
    THEN Record(v.text, FALSE, FALSE)
    ELSE IF v.kind = "dict" /\ "remove_after_finish" \notin DOMAIN v.d
    THEN DictValue([f \in DOMAIN v.d \cup {"remove_after_finish"} |->
                        IF f = "remove_after_finish" THEN FALSE ELSE v.d[f]])
    ELSE v

\* faulty variant: the loaded map is written back whether or not it changed
LoadUserEventsAlwaysWrites(s) ==
    LET events == [k \in DOMAIN s.settings |-> Migrate(s.settings[k])]
        loaded == Log([s EXCEPT !.user_events = events], "load_user_events")
    IN  Log([loaded EXCEPT !.settings = events], "setValue")

LoadUserEvents(s) ==
    LET events == [k \in DOMAIN s.settings |-> Migrate(s.settings[k])]
        migrated == \E k \in DOMAIN s.settings : NeedsMigration(s.settings[k])
        loaded == Log([s EXCEPT !.user_events = events], "load_user_events")
    IN  IF migrated
        THEN Log([loaded EXCEPT !.settings = events], "setValue")
        ELSE loaded

(***************************************************************************)
(* _get_user_event_for_date (calendar_window.py): specific key first, then *)
(* the yearly key.  ok = FALSE: event_data.get raised (AttributeError).    *)
(***************************************************************************)
Found(ok, text, yearly, raf) == [ok |-> ok, text |-> text, yearly |-> yearly, raf |-> raf]

\* faulty variant: the yearly key is looked up before the specific key
GetUserEventForDateYearlyFirst(events, jdate) ==
    LET specific_key == SpecificKey(jdate)
        yearly_key == YearlyKey(jdate)
    IN  IF yearly_key \in DOMAIN events
        THEN LET v == events[yearly_key]
             IN  IF v.kind # "dict" THEN Found(FALSE, NoneText, FALSE, FALSE)
                 ELSE Found(TRUE, Get(v, "text", NoneText), TRUE,
                            Get(v, "remove_after_finish", FALSE))
        ELSE IF specific_key \in DOMAIN events
        THEN LET v == events[specific_key]
             IN  IF v.kind # "dict" THEN Found(FALSE, NoneText, FALSE, FALSE)
                 ELSE Found(TRUE, Get(v, "text", NoneText), Get(v, "yearly", FALSE),
                            Get(v, "remove_after_finish", FALSE))
        ELSE Found(TRUE, NoneText, FALSE, FALSE)

\* faulty variant: the yearly key reports the yearly value of the stored record
GetUserEventForDateStoredYearly(events, jdate) ==
    LET specific_key == SpecificKey(jdate)
        yearly_key == YearlyKey(jdate)
    IN  IF specific_key \in DOMAIN events
        THEN LET v == events[specific_key]
             IN  IF v.kind # "dict" THEN Found(FALSE, NoneText, FALSE, FALSE)
                 ELSE Found(TRUE, Get(v, "text", NoneText), Get(v, "yearly", FALSE),
                            Get(v, "remove_after_finish", FALSE))
        ELSE IF yearly_key \in DOMAIN events
        THEN LET v == events[yearly_key]
             IN  IF v.kind # "dict" THEN Found(FALSE, NoneText, FALSE, FALSE)
                 ELSE Found(TRUE, Get(v, "text", NoneText), Get(v, "yearly", FALSE),
                            Get(v, "remove_after_finish", FALSE))
        ELSE Found(TRUE, NoneText, FALSE, FALSE)

GetUserEventForDate(events, jdate) ==
    LET specific_key == SpecificKey(jdate)
        yearly_key == YearlyKey(jdate)
    IN  IF specific_key \in DOMAIN events
        THEN LET v == events[specific_key]
             IN  IF v.kind # "dict" THEN Found(FALSE, NoneText, FALSE, FALSE)
                 ELSE Found(TRUE, Get(v, "text", NoneText), Get(v, "yearly", FALSE),
                            Get(v, "remove_after_finish", FALSE))
        ELSE IF yearly_key \in DOMAIN events
        THEN LET v == events[yearly_key]
             IN  IF v.kind # "dict" THEN Found(FALSE, NoneText, FALSE, FALSE)
                 ELSE Found(TRUE, Get(v, "text", NoneText), TRUE,
                            Get(v, "remove_after_finish", FALSE))
        ELSE Found(TRUE, NoneText, FALSE, FALSE)

\* bool(user_event_text)
Truthy(text) == text # NoneText /\ text # ""

(***************************************************************************)
(* _load_holidays_from_file.  The file is missing, is not JSON, or holds a *)
(* JSON value; a JSON object is the sequence of its (key, value) pairs in  *)
(* file order, the order in which the loops visit them.  int() and the     *)
(* "MM-DD" split raise ValueError, which the method catches around the     *)
(* whole loop; .get and .items() on a value that is not an object raise    *)
(* AttributeError, which it does not catch.                                *)
(***************************************************************************)
JDict(pairs) == [kind |-> "dict", items |-> pairs]
JList(items) == [kind |-> "list", items |-> items]
JStr(text) == [kind |-> "str", text |-> text]
Pair(key, value) == [key |-> key, value |-> value]

\* dict.get(key, default) on a JSON object
JGet(obj, key, default) ==
    IF \E i \in 1..Len(obj.items) : obj.items[i].key = key
    THEN obj.items[CHOOSE i \in 1..Len(obj.items) : obj.items[i].key = key].value
    ELSE default

NoHolidays == [y \in {} |-> [md \in {} |-> <<>>]]

AllDigits(cs) == Len(cs) > 0 /\ \A i \in 1..Len(cs) : IsDigit(cs[i])

RECURSIVE IntOf(_)
IntOf(cs) == IF cs = <<>> THEN 0
             ELSE 10 * IntOf(SubSeq(cs, 1, Len(cs) - 1)) + DigitVal(cs[Len(cs)])

\* month_day_str.split('-')
RECURSIVE SplitDash(_)
SplitDash(cs) ==
    IF \A i \in 1..Len(cs) : cs[i] # "-" THEN <<cs>>
    ELSE LET i == CHOOSE j \in 1..Len(cs) :
                      cs[j] = "-" /\ \A k \in 1..(j - 1) : cs[k] # "-"
         IN  <<SubSeq(cs, 1, i - 1)>> \o SplitDash(SubSeq(cs, i + 1, Len(cs)))

\* month, day = map(int, month_day_str.split('-')) does not raise
MonthDayParses(cs) ==
    LET parts == SplitDash(cs)
    IN  Len(parts) = 2 /\ AllDigits(parts[1]) /\ AllDigits(parts[2])

MonthDayOf(cs) == LET parts == SplitDash(cs) IN <<IntOf(parts[1]), IntOf(parts[2])>>

Reasons(desc) == IF desc.kind = "str" THEN <<desc.text>> ELSE desc.items

Loaded(error, data) == [error |-> error, data |-> data]

\* the inner loop over one year's entries, from entry i on
RECURSIVE LoadDays(_, _, _)
LoadDays(events, i, acc) ==
    IF i > Len(events) THEN Loaded("", acc)
    ELSE IF ~MonthDayParses(events[i].key) THEN Loaded("ValueError", acc)
    ELSE LoadDays(events, i + 1,
                  With(acc, MonthDayOf(events[i].key), Reasons(events[i].value)))

\* the outer loop over the years, from year i on
RECURSIVE LoadYears(_, _, _)
LoadYears(raw_data, i, acc) ==
    IF i > Len(raw_data) THEN Loaded("", acc)
    ELSE IF ~AllDigits(raw_data[i].key) THEN Loaded("ValueError", acc)
    ELSE IF raw_data[i].value.kind # "dict" THEN Loaded("AttributeError", acc)
    ELSE LET days == LoadDays(raw_data[i].value.items, 1, [md \in {} |-> <<>>])
         IN  IF days.error # "" THEN Loaded(days.error, acc)
             ELSE LoadYears(raw_data, i + 1, With(acc, IntOf(raw_data[i].key), days.data))

\* error = "": the method returned data; otherwise the exception left it
LoadHolidaysFromFile(file) ==
    IF file.kind # "json" THEN Loaded("", NoHolidays)
    ELSE IF file.json.kind # "dict" THEN Loaded("AttributeError", NoHolidays)
    ELSE LET raw_data == JGet(file.json, "holidays", JDict(<<>>))
         IN  IF raw_data.kind # "dict" THEN Loaded("AttributeError", NoHolidays)
             ELSE LET loaded == LoadYears(raw_data.items, 1, NoHolidays)
                  IN  IF loaded.error = "" THEN loaded
                      ELSE IF loaded.error = "ValueError" THEN Loaded("", NoHolidays)
                      ELSE Loaded(loaded.error, NoHolidays)

\* self.holidays_cache.get(year, {}).get((month, day), [])
HolidayReasons(cache, d) ==
    IF d.year \in DOMAIN cache /\ <<d.month, d.day>> \in DOMAIN cache[d.year]
    THEN cache[d.year][<<d.month, d.day>>]
    ELSE <<>>

(***************************************************************************)
(* update_tray_icon: the day shown in the tray, its colour and tooltip.    *)
(***************************************************************************)
\* faulty variant: an entry of any year on the same month and day counts
IsHolidayAnyYear(cache, d) ==
    \/ Weekday(d) = 6
    \/ \E y \in DOMAIN cache :
          <<d.month, d.day>> \in DOMAIN cache[y] /\ cache[y][<<d.month, d.day>>] # <<>>

IsHoliday(cache, d) == Weekday(d) = 6 \/ HolidayReasons(cache, d) # <<>>

IconColor(is_user_event, is_holiday) ==
    IF is_user_event THEN "ACCENT_COLOR"
    ELSE IF is_holiday THEN "HOLIDAY_COLOR"
    ELSE "TRAY_ICON_COLOR"

UpdateTrayIcon(s, new_date, force) ==
    IF s.crashed THEN s
    ELSE IF ~force /\ new_date = s.current_date THEN s
    ELSE LET shown == [s EXCEPT !.current_date = new_date]
             ev == GetUserEventForDate(s.user_events, new_date)
             is_user_event == Truthy(ev.text)
             is_holiday == IsHoliday(s.holidays_cache, new_date)
         IN  IF ~ev.ok THEN Raise(Log(shown, "update_tray_icon"), "AttributeError")
             ELSE Log([shown EXCEPT
                         !.icon = [day |-> new_date.day,
                                   color |-> IconColor(is_user_event, is_holiday)],
                         !.tooltip = [weekday |-> Weekday(new_date),
                                      date |-> new_date,
                                      holidays |-> IF is_holiday
                                                   THEN HolidayReasons(s.holidays_cache, new_date)
                                                   ELSE <<>>,
                                      event |-> IF is_user_event THEN ev.text ELSE NoneText]],
                      "update_tray_icon")

\* PersianCalendarWidget.go_to_today (the month displayed and the day selected
\* in the view follow current_date here; they are not part of this model)
GoToToday(s, today) ==
    IF s.crashed THEN s
    ELSE Log([s EXCEPT !.current_date = today], "go_to_today")

(***************************************************************************)
(* The calendar grid (calendar_window.py).  The view holds the very dict   *)
(* objects of the controller (set_user_events, __init__), so a cell is a   *)
(* function of user_events and holidays_cache.  Of DayStyle the text       *)
(* colour and the tooltip are modelled; "0.45" marks the rgba string of an *)
(* out-of-month cell.                                                      *)
(***************************************************************************)
\* fill_calendar_grid: label.has_user_event = bool(user_event_text)
HasUserEvent(events, jdate) == Truthy(GetUserEventForDate(events, jdate).text)

\* faulty variant: a holiday or a Friday outranks the user event
TextColorHolidayFirst(is_in_month, is_user_event, is_holiday, is_friday) ==
    IF is_in_month
    THEN IF is_holiday \/ is_friday THEN "HOLIDAY_COLOR"
         ELSE IF is_user_event THEN "ACCENT_COLOR"
         ELSE "TEXT_COLOR"
    ELSE IF is_holiday \/ is_friday THEN "HOLIDAY_COLOR 0.45"
         ELSE IF is_user_event THEN "ACCENT_COLOR 0.45"
         ELSE "GREY_COLOR"

TextColor(is_in_month, is_user_event, is_holiday, is_friday) ==
    IF is_in_month
    THEN IF is_user_event THEN "ACCENT_COLOR"
         ELSE IF is_holiday \/ is_friday THEN "HOLIDAY_COLOR"
         ELSE "TEXT_COLOR"
    ELSE IF is_user_event THEN "ACCENT_COLOR 0.45"
         ELSE IF is_holiday \/ is_friday THEN "HOLIDAY_COLOR 0.45"
         ELSE "GREY_COLOR"

\* _determine_day_style; ok = FALSE: _get_user_event_for_date raised
DetermineDayStyle(events, cache, jdate, is_in_month) ==
    LET ev == GetUserEventForDate(events, jdate)
        is_user_event == Truthy(ev.text)
        is_friday == Weekday(jdate) = 6
        holiday_reasons == HolidayReasons(cache, jdate)
        is_holiday == holiday_reasons # <<>>
    IN  [ok |-> ev.ok,
         is_user_event |-> is_user_event,
         is_holiday |-> is_holiday,
         is_friday |-> is_friday,
         tooltip |-> [holidays |-> holiday_reasons,
                      event |-> IF is_user_event THEN ev.text ELSE NoneText],
         text_color |-> TextColor(is_in_month, is_user_event, is_holiday, is_friday)]

(***************************************************************************)
(* Calendar conversion.  jdatetime (not part of this repository) converts  *)
(* by day counts: 33-year cycles of 12053 days from the Jalali year 979,   *)
(* 400-year cycles of 146097 days from the Gregorian year 1600; Python's   *)
(* // and % round down, as \div and % do.                                  *)
(***************************************************************************)
MIN_JALALI_YEAR == 1
MAX_JALALI_YEAR == 1600
MIN_GREGORIAN_YEAR == 622
MAX_GREGORIAN_YEAR == 2200

g_days_in_month == <<31, 28, 31, 30, 31, 30, 31, 31, 30, 31, 30, 31>>

is_gregorian_leap_year(year) == (year % 4 = 0 /\ year % 100 # 0) \/ year % 400 = 0

GregorianDaysInMonth(year, month) ==
    g_days_in_month[month] + (IF month = 2 /\ is_gregorian_leap_year(year) THEN 1 ELSE 0)

\* datetime.date(year, month, day) succeeds (no ValueError)
ValidGregorian(year, month, day) ==
    /\ 1 <= year /\ year <= 9999
    /\ 1 <= month /\ month <= 12
    /\ 1 <= day /\ day <= GregorianDaysInMonth(year, month)

\* the month and day of the day count day_no within a Gregorian year
RECURSIVE GregorianWalk(_, _, _)
GregorianWalk(day_no, i, leap) ==
    LET length == g_days_in_month[i] + (IF i = 2 /\ leap THEN 1 ELSE 0)
    IN  IF day_no >= length THEN GregorianWalk(day_no - length, i + 1, leap)
        ELSE [month |-> i, day |-> day_no + 1]

\* the month and day of the day count day_no within a Jalali year: the loop
\* runs over the first eleven months only
RECURSIVE JalaliWalk(_, _)
JalaliWalk(day_no, i) ==
    IF i <= 11 /\ day_no >= j_days_in_month[i]
    THEN JalaliWalk(day_no - j_days_in_month[i], i + 1)
    ELSE [month |-> i, day |-> day_no + 1]

\* faulty variant: the century correction of the day count is left out
JalaliToGregorianNoCentury(jyear, jmonth, jday) ==
    LET g0 == DayNumber([year |-> jyear, month |-> jmonth, day |-> jday]) + 79
        gy0 == 1600 + 400 * (g0 \div 146097)
        g1 == g0 % 146097
        gy2 == gy0 + 4 * (g1 \div 1461)
        g3 == g1 % 1461
        late == g3 >= 366
        gy3 == IF late THEN gy2 + ((g3 - 1) \div 365) ELSE gy2
        g4 == IF late THEN (g3 - 1) % 365 ELSE g3
        md == GregorianWalk(g4, 1, ~late)
    IN  [year |-> gy3, month |-> md.month, day |-> md.day]

\* jdatetime.JalaliToGregorian
JalaliToGregorian(jyear, jmonth, jday) ==
    LET g0 == DayNumber([year |-> jyear, month |-> jmonth, day |-> jday]) + 79
        gy0 == 1600 + 400 * (g0 \div 146097)
        g1 == g0 % 146097
        century == g1 >= 36525
        gy1 == IF century THEN gy0 + 100 * ((g1 - 1) \div 36524) ELSE gy0
        g1c == (g1 - 1) % 36524
        leap1 == ~century \/ g1c >= 365
        g2 == IF ~century THEN g1 ELSE IF g1c >= 365 THEN g1c + 1 ELSE g1c
        gy2 == gy1 + 4 * (g2 \div 1461)
        g3 == g2 % 1461
        late == g3 >= 366
        gy3 == IF late THEN gy2 + ((g3 - 1) \div 365) ELSE gy2
        g4 == IF late THEN (g3 - 1) % 365 ELSE g3
        md == GregorianWalk(g4, 1, leap1 /\ ~late)
    IN  [year |-> gy3, month |-> md.month, day |-> md.day]

\* days of the Gregorian year before the first of the month, without leap day
RECURSIVE GregorianDaysBeforeMonth(_)
GregorianDaysBeforeMonth(month) ==
    IF month = 1 THEN 0
    ELSE GregorianDaysBeforeMonth(month - 1) + g_days_in_month[month - 1]

\* jdatetime.GregorianToJalali
GregorianToJalali(gyear, gmonth, gday) ==
    LET gy == gyear - 1600
        g_day_no == 365 * gy + ((gy + 3) \div 4) - ((gy + 99) \div 100)
                    + ((gy + 399) \div 400) + GregorianDaysBeforeMonth(gmonth)
                    + (IF gmonth > 2 /\ is_gregorian_leap_year(gy) THEN 1 ELSE 0)
                    + (gday - 1)
        j_day_no == g_day_no - 79
        j_np == j_day_no \div 12053
        j1 == j_day_no % 12053
        jy1 == 979 + 33 * j_np + 4 * (j1 \div 1461)
        j2 == j1 % 1461
        late == j2 >= 366
        jy == IF late THEN jy1 + ((j2 - 1) \div 365) ELSE jy1
        j3 == IF late THEN (j2 - 1) % 365 ELSE j2
        md == JalaliWalk(j3, 1)
    IN  [year |-> jy, month |-> md.month, day |-> md.day]

Converted(ok, date) == [ok |-> ok, date |-> date]

\* jdatetime.date.togregorian(): datetime.date(*JalaliToGregorian(...));
\* ok = FALSE: ValueError
ToGregorian(j_date) ==
    LET g == JalaliToGregorian(j_date.year, j_date.month, j_date.day)
    IN  IF ValidGregorian(g.year, g.month, g.day) THEN Converted(TRUE, g)
        ELSE Converted(FALSE, NoDate)

\* jdatetime.date.fromgregorian(date=g_date): jdatetime.date(*GregorianToJalali(...));
\* ok = FALSE: ValueError
FromGregorian(g_date) ==
    LET j == GregorianToJalali(g_date.year, g_date.month, g_date.day)
    IN  IF ValidJalali(j.year, j.month, j.day) THEN Converted(TRUE, j)
        ELSE Converted(FALSE, NoDate)

(***************************************************************************)
(* PersianCalendarWidget: the month on display.  error names the exception *)
(* that left a slot.                                                       *)
(***************************************************************************)
Calendar(display_date) == [display_date |-> display_date, error |-> ""]

\* no calendar window is followed
NoCalendar == Calendar(NoDate)

\* the month `months` (1 or -1) after the month (year, month)
TargetMonth(year, month, months) ==
    IF month + months < 1 THEN [year |-> year - 1, month |-> month + months + 12]
    ELSE IF month + months > 12 THEN [year |-> year + 1, month |-> month + months - 12]
    ELSE [year |-> year, month |-> month + months]

\* the day _navigate falls back to
NavigateLastDay(year, month) ==
    IF 1 <= month /\ month <= 6 THEN 31
    ELSE IF 7 <= month /\ month <= 11 THEN 30
    ELSE IF is_jalali_leap_year(year) THEN 30 ELSE 29

\* _navigate: a ValueError of the second jdatetime.date is not caught
Navigate(c, months) ==
    LET target == TargetMonth(c.display_date.year, c.display_date.month, months)
        day == c.display_date.day
        last_day == NavigateLastDay(target.year, target.month)
    IN  IF ValidJalali(target.year, target.month, day)
        THEN [c EXCEPT !.display_date =
                 [year |-> target.year, month |-> target.month, day |-> day]]
        ELSE IF ValidJalali(target.year, target.month, last_day)
        THEN [c EXCEPT !.display_date =
                 [year |-> target.year, month |-> target.month, day |-> last_day]]
        ELSE [c EXCEPT !.error = "ValueError"]

\* go_to_date
GoToDate(c, year, month) ==
    LET day == IF c.display_date.day < 29 THEN c.display_date.day ELSE 29
    IN  IF ValidJalali(year, month, day)
        THEN [c EXCEPT !.display_date = [year |-> year, month |-> month, day |-> day]]
        ELSE IF ValidJalali(year, month, 1)
        THEN [c EXCEPT !.display_date = [year |-> year, month |-> month, day |-> 1]]
        ELSE c

\* date_utils.safe_jdate: the date, or None
safe_jdate(year, month, day) ==
    IF ValidJalali(year, month, day) THEN [year |-> year, month |-> month, day |-> day]
    ELSE NoDate

(***************************************************************************)
(* DateConverterWindow (converter_window.py).  The year is the text of     *)
(* year_input, which its validator keeps to at most four digits; the month *)
(* and the day are the selections of the two combo boxes.  A message is    *)
(* named here by what it says.                                             *)
(***************************************************************************)
\* str(n) for n >= 0
RECURSIVE StrOf(_)
StrOf(n) == IF n < 10 THEN <<DigitChars[n + 1]>>
            ELSE StrOf(n \div 10) \o <<DigitChars[(n % 10) + 1]>>

\* the window as _on_conversion_type_changed leaves it, with the year typed in
ConverterWindow(is_jalali_input, year_text) ==
    [is_jalali_input |-> is_jalali_input, year_text |-> year_text,
     month |-> 1, day |-> 1, days |-> 31,
     status_message |-> "", output_visible |-> FALSE,
     jalali_date |-> NoDate, gregorian_date |-> NoDate]

\* self.converter_window = None
NoConverter ==
    [is_jalali_input |-> FALSE, year_text |-> <<>>, month |-> 0, day |-> 0, days |-> 0,
     status_message |-> "", output_visible |-> FALSE,
     jalali_date |-> NoDate, gregorian_date |-> NoDate]

\* _get_days_in_month; the Gregorian branch builds datetime.date(year, month + 1, 1),
\* which raises ValueError outside the years 1..9999: _update_day_dropdown then
\* offers 31 days
GetDaysInMonth(is_jalali, year, month) ==
    IF is_jalali THEN days_in_month(year, month)
    ELSE IF month = 12 THEN 31
    ELSE IF 1 <= year /\ year <= 9999 THEN GregorianDaysInMonth(year, month)
    ELSE 31

\* _update_day_dropdown: day_combo offers the days of the month of the typed
\* year (the year 1 when the text is empty) and keeps the selected day if it
\* still offers it, else selects the last one
UpdateDayDropdown(w) ==
    LET year == IF w.year_text = <<>> THEN 1 ELSE IntOf(w.year_text)
        days == GetDaysInMonth(w.is_jalali_input, year, w.month)
    IN  [w EXCEPT !.days = days, !.day = IF w.day <= days THEN w.day ELSE days]

ClearResults(w) == [w EXCEPT !.status_message = "", !.output_visible = FALSE]

ShowError(w, message) == [ClearResults(w) EXCEPT !.status_message = message]

DisplayResults(w, j_date, g_date) ==
    [w EXCEPT !.jalali_date = j_date, !.gregorian_date = g_date, !.output_visible = TRUE]

\* faulty variant: the year range is not checked
ConvertDateNoRange(w) ==
    LET cleared == ClearResults(w)
        year == IntOf(w.year_text)
        typed == [year |-> year, month |-> w.month, day |-> w.day]
    IN  IF w.year_text = <<>> THEN ShowError(cleared, "enter the year")
        ELSE IF w.is_jalali_input
        THEN IF ~ValidJalali(year, w.month, w.day) \/ ~ToGregorian(typed).ok
             THEN ShowError(cleared, "invalid date")
             ELSE DisplayResults(cleared, typed, ToGregorian(typed).date)
        ELSE IF ~ValidGregorian(year, w.month, w.day) \/ ~FromGregorian(typed).ok
             THEN ShowError(cleared, "invalid date")
             ELSE DisplayResults(cleared, FromGregorian(typed).date, typed)

\* _convert_date.  The range checks repeated after the try statement find the
\* year in range whenever they are reached.
ConvertDate(w) ==
    LET cleared == ClearResults(w)
        year == IntOf(w.year_text)
        typed == [year |-> year, month |-> w.month, day |-> w.day]
    IN  IF w.year_text = <<>> THEN ShowError(cleared, "enter the year")
        ELSE IF w.is_jalali_input
        THEN IF ~(MIN_JALALI_YEAR <= year /\ year <= MAX_JALALI_YEAR)
             THEN ShowError(cleared, "Jalali year out of range")
             ELSE IF ~ValidJalali(year, w.month, w.day) \/ ~ToGregorian(typed).ok
             THEN ShowError(cleared, "invalid date")
             ELSE DisplayResults(cleared, typed, ToGregorian(typed).date)
        ELSE IF ~(MIN_GREGORIAN_YEAR <= year /\ year <= MAX_GREGORIAN_YEAR)
             THEN ShowError(cleared, "Gregorian year out of range")
             ELSE IF ~ValidGregorian(year, w.month, w.day) \/ ~FromGregorian(typed).ok
             THEN ShowError(cleared, "invalid date")
             ELSE DisplayResults(cleared, FromGregorian(typed).date, typed)

(***************************************************************************)
(* remove_user_event and add_user_event.                                   *)
(***************************************************************************)
\* faulty variant: only the specific key is deleted
RemoveUserEventSpecificOnly(s, today, jdate, save) ==
    IF s.crashed THEN s
    ELSE IF jdate = NoDate THEN Log(s, "remove_user_event")
    ELSE LET specific_key == SpecificKey(jdate)
             event_removed == specific_key \in DOMAIN s.user_events
             entered == Log(s, "remove_user_event")
             removed == IF specific_key \in DOMAIN s.user_events
                        THEN Log([entered EXCEPT !.user_events = Without(@, {specific_key})],
                                 "del_specific_key")
                        ELSE entered
         IN  IF event_removed /\ save
             THEN UpdateTrayIcon(SetUserEvents(SaveUserEvents(removed)), today, TRUE)
             ELSE removed

\* faulty variant: only the yearly key is deleted
RemoveUserEventYearlyOnly(s, today, jdate, save) ==
    IF s.crashed THEN s
    ELSE IF jdate = NoDate THEN Log(s, "remove_user_event")
    ELSE LET yearly_key == YearlyKey(jdate)
             event_removed == yearly_key \in DOMAIN s.user_events
             entered == Log(s, "remove_user_event")
             removed == IF yearly_key \in DOMAIN s.user_events
                        THEN Log([entered EXCEPT !.user_events = Without(@, {yearly_key})],
                                 "del_yearly_key")
                        ELSE entered
         IN  IF event_removed /\ save
             THEN UpdateTrayIcon(SetUserEvents(SaveUserEvents(removed)), today, TRUE)
             ELSE removed

\* faulty variant: the store is saved and shown whether or not a key was deleted
RemoveUserEventAlwaysSaves(s, today, jdate, save) ==
    IF s.crashed THEN s
    ELSE IF jdate = NoDate THEN Log(s, "remove_user_event")
    ELSE LET specific_key == SpecificKey(jdate)
             yearly_key == YearlyKey(jdate)
             entered == Log(s, "remove_user_event")
             first == IF specific_key \in DOMAIN s.user_events
                      THEN Log([entered EXCEPT !.user_events = Without(@, {specific_key})],
                               "del_specific_key")
                      ELSE entered
             removed == IF yearly_key \in DOMAIN s.user_events
                        THEN Log([first EXCEPT !.user_events = Without(@, {yearly_key})],
                                 "del_yearly_key")
                        ELSE first
         IN  IF save
             THEN UpdateTrayIcon(SetUserEvents(SaveUserEvents(removed)), today, TRUE)
             ELSE removed

\* faulty variant: the records of the same month and day in every year go too
RemoveUserEventEveryYear(s, today, jdate, save) ==
    IF s.crashed THEN s
    ELSE IF jdate = NoDate THEN Log(s, "remove_user_event")
    ELSE LET same_day == {k \in DOMAIN s.user_events :
                             /\ Len(k) = 10
                             /\ SubSeq(k, 5, 10) = SubSeq(YearlyKey(jdate), 5, 10)}
             entered == Log(s, "remove_user_event")
             removed == IF same_day # {}
                        THEN Log([entered EXCEPT !.user_events = Without(@, same_day)],
                                 "del_specific_key")
                        ELSE entered
         IN  IF same_day # {} /\ save
             THEN UpdateTrayIcon(SetUserEvents(SaveUserEvents(removed)), today, TRUE)
             ELSE removed

RemoveUserEvent(s, today, jdate, save) ==
    IF s.crashed THEN s
    ELSE IF jdate = NoDate THEN Log(s, "remove_user_event")
    ELSE LET specific_key == SpecificKey(jdate)
             yearly_key == YearlyKey(jdate)
             event_removed == \/ specific_key \in DOMAIN s.user_events
                              \/ yearly_key \in DOMAIN s.user_events
             entered == Log(s, "remove_user_event")
             first == IF specific_key \in DOMAIN s.user_events
                      THEN Log([entered EXCEPT !.user_events = Without(@, {specific_key})],
                               "del_specific_key")
                      ELSE entered
             removed == IF yearly_key \in DOMAIN s.user_events
                        THEN Log([first EXCEPT !.user_events = Without(@, {yearly_key})],
                                 "del_yearly_key")
                        ELSE first
         IN  IF event_removed /\ save
             THEN UpdateTrayIcon(SetUserEvents(SaveUserEvents(removed)), today, TRUE)
             ELSE removed

\* faulty variant: remove_after_finish is stored as given, also for a yearly event
AddUserEventKeepsFlag(s, today, jdate, text, is_yearly, remove_after_finish) ==
    IF s.crashed THEN s
    ELSE IF jdate = NoDate THEN Log(s, "add_user_event")
    ELSE LET cleared == RemoveUserEvent(Log(s, "add_user_event"), today, jdate, FALSE)
             key == IF is_yearly THEN YearlyKey(jdate) ELSE SpecificKey(jdate)
             written == [cleared EXCEPT !.user_events =
                            With(@, key, Record(text, is_yearly, remove_after_finish))]
         IN  UpdateTrayIcon(SetUserEvents(SaveUserEvents(written)), today, TRUE)

\* faulty variant: a record already stored under the key is kept
AddUserEventKeepsExisting(s, today, jdate, text, is_yearly, remove_after_finish) ==
    IF s.crashed THEN s
    ELSE IF jdate = NoDate THEN Log(s, "add_user_event")
    ELSE LET entered == Log(s, "add_user_event")
             raf == IF is_yearly THEN FALSE ELSE remove_after_finish
             key == IF is_yearly THEN YearlyKey(jdate) ELSE SpecificKey(jdate)
             written == IF key \in DOMAIN s.user_events THEN entered
                        ELSE [entered EXCEPT !.user_events =
                                 With(@, key, Record(text, is_yearly, raf))]
         IN  UpdateTrayIcon(SetUserEvents(SaveUserEvents(written)), today, TRUE)

\* faulty variant: the yearly record of the date is left in place
AddUserEventKeepsYearly(s, today, jdate, text, is_yearly, remove_after_finish) ==
    IF s.crashed THEN s
    ELSE IF jdate = NoDate THEN Log(s, "add_user_event")
    ELSE LET cleared == RemoveUserEventSpecificOnly(Log(s, "add_user_event"), today,
                                                    jdate, FALSE)
             raf == IF is_yearly THEN FALSE ELSE remove_after_finish
             key == IF is_yearly THEN YearlyKey(jdate) ELSE SpecificKey(jdate)
             written == [cleared EXCEPT !.user_events =
                            With(@, key, Record(text, is_yearly, raf))]
         IN  UpdateTrayIcon(SetUserEvents(SaveUserEvents(written)), today, TRUE)

\* faulty variant: a yearly event is written under its specific key
AddUserEventSpecificKey(s, today, jdate, text, is_yearly, remove_after_finish) ==
    IF s.crashed THEN s
    ELSE IF jdate = NoDate THEN Log(s, "add_user_event")
    ELSE LET cleared == RemoveUserEvent(Log(s, "add_user_event"), today, jdate, FALSE)
             raf == IF is_yearly THEN FALSE ELSE remove_after_finish
             written == [cleared EXCEPT !.user_events =
                            With(@, SpecificKey(jdate), Record(text, is_yearly, raf))]
         IN  UpdateTrayIcon(SetUserEvents(SaveUserEvents(written)), today, TRUE)

AddUserEvent(s, today, jdate, text, is_yearly, remove_after_finish) ==
    IF s.crashed THEN s
    ELSE IF jdate = NoDate THEN Log(s, "add_user_event")
    ELSE LET cleared == RemoveUserEvent(Log(s, "add_user_event"), today, jdate, FALSE)
             raf == IF is_yearly THEN FALSE ELSE remove_after_finish
             key == IF is_yearly THEN YearlyKey(jdate) ELSE SpecificKey(jdate)
             written == [cleared EXCEPT !.user_events =
                            With(@, key, Record(text, is_yearly, raf))]
         IN  UpdateTrayIcon(SetUserEvents(SaveUserEvents(written)), today, TRUE)

(***************************************************************************)
(* _clean_expired_events.                                                  *)
(***************************************************************************)
\* faulty variant: the `not` before the yearly test is missing
ExpiredMissingNot(key, v, today) ==
    /\ Get(v, "yearly", FALSE)
    /\ Get(v, "remove_after_finish", FALSE)
    /\ StrpTime(key).ok
    /\ DateLt(StrpTime(key).date, today)

\* faulty variant: a record dated today counts as expired
ExpiredThroughToday(key, v, today) ==
    /\ ~Get(v, "yearly", FALSE)
    /\ Get(v, "remove_after_finish", FALSE)
    /\ StrpTime(key).ok
    /\ ~DateLt(today, StrpTime(key).date)

\* the test of line 224 and the try block under it
Expired(key, v, today) ==
    /\ ~Get(v, "yearly", FALSE)
    /\ Get(v, "remove_after_finish", FALSE)
    /\ StrpTime(key).ok
    /\ DateLt(StrpTime(key).date, today)

\* faulty variant: the ValueError of strptime is not caught
CleanExpiredEventsKeyErrorFatal(s, today) ==
    IF s.crashed THEN s
    ELSE LET started == Log(s, "clean_expired_events")
             events_to_remove ==
                 {k \in DOMAIN s.user_events : Expired(k, s.user_events[k], today)}
             removed == SaveUserEvents(
                            [started EXCEPT !.user_events = Without(@, events_to_remove)])
         IN  IF \E k \in DOMAIN s.user_events : s.user_events[k].kind # "dict"
             THEN Raise(started, "AttributeError")
             ELSE IF \E k \in DOMAIN s.user_events :
                        /\ ~Get(s.user_events[k], "yearly", FALSE)
                        /\ Get(s.user_events[k], "remove_after_finish", FALSE)
                        /\ ~StrpTime(k).ok
             THEN Raise(started, "ValueError")
             ELSE IF events_to_remove = {} THEN started
             ELSE IF ~s.widget THEN Raise(removed, "AttributeError")
             ELSE SetUserEvents(removed)

\* faulty variant: the store is written back even when nothing expired
CleanExpiredEventsAlwaysSaves(s, today) ==
    IF s.crashed THEN s
    ELSE LET started == Log(s, "clean_expired_events")
             events_to_remove ==
                 {k \in DOMAIN s.user_events : Expired(k, s.user_events[k], today)}
             removed == SaveUserEvents(
                            [started EXCEPT !.user_events = Without(@, events_to_remove)])
         IN  IF \E k \in DOMAIN s.user_events : s.user_events[k].kind # "dict"
             THEN Raise(started, "AttributeError")
             ELSE IF events_to_remove = {} THEN SaveUserEvents(started)
             ELSE IF ~s.widget THEN Raise(removed, "AttributeError")
             ELSE SetUserEvents(removed)

CleanExpiredEvents(s, today) ==
    IF s.crashed THEN s
    ELSE LET started == Log(s, "clean_expired_events")
             events_to_remove ==
                 {k \in DOMAIN s.user_events : Expired(k, s.user_events[k], today)}
             removed == SaveUserEvents(
                            [started EXCEPT !.user_events = Without(@, events_to_remove)])
         IN  IF \E k \in DOMAIN s.user_events : s.user_events[k].kind # "dict"
             THEN Raise(started, "AttributeError")
             ELSE IF events_to_remove = {} THEN started
             ELSE IF ~s.widget THEN Raise(removed, "AttributeError")
             ELSE SetUserEvents(removed)

(***************************************************************************)
(* schedule_next_midnight_check, run at time of day `now`.                 *)
(***************************************************************************)
\* 2^n mod 1000
RECURSIVE PowerOfTwoMod1000(_)
PowerOfTwoMod1000(n) == IF n = 0 THEN 1 ELSE (2 * PowerOfTwoMod1000(n - 1)) % 1000

\* (k / 1000) * 1000 in IEEE double arithmetic, for a whole number k of
\* milliseconds: total_seconds() rounds k / 1000 to 53 bits and the product is
\* rounded again.  The product falls below k when the quotient was rounded
\* down by more than half a unit in the last place of k: r is the remainder of
\* the division k * 2^(52 - j) / 1000 that the rounding drops, for the binary
\* exponent j with 1000 * 2^j <= k < 1024 * 2^j (there k / 1000 and k, as
\* doubles, lie 9 binary orders apart instead of 10).
ProductFallsShort(k) ==
    \E j \in -10..17 :
        /\ IF j >= 0 THEN 1000 * 2^j <= k /\ k < 1024 * 2^j
           ELSE k < 1000 /\ 1000 <= k * 2^(-j) /\ k * 2^(-j) < 1024
        /\ LET r == ((k % 1000) * PowerOfTwoMod1000(52 - j)) % 1000
           IN  256 < r /\ r < 500

\* int((midnight - now).total_seconds() * 1000): the microseconds to the next
\* midnight as a double of seconds, times 1000, truncated.  A remainder that
\* is no whole number of milliseconds is truncated to the whole part (the
\* rounding error is far below a microsecond); a whole number k may come out
\* as k - 1.
MillisUntilMidnight(now) ==
    LET whole == DayMs - now.ms - (IF now.us > 0 THEN 1 ELSE 0)
    IN  IF now.us = 0 /\ ProductFallsShort(whole) THEN whole - 1 ELSE whole

TimerActive(s) == s.midnight_timer # 0 /\ s.midnight_timer \in DOMAIN s.timers

StartTimer(s, interval) ==
    LET t == CHOOSE x \in TimerIds \ DOMAIN s.timers :
                 \A y \in TimerIds \ DOMAIN s.timers : x <= y
    IN  [s EXCEPT !.midnight_timer = t,
                  !.timers = [x \in DOMAIN s.timers \cup {t} |->
                                 IF x = t THEN interval ELSE s.timers[x]]]

\* faulty variant: the previous timer is left running
ScheduleNextMidnightCheckNoStop(s, now) ==
    IF s.crashed THEN s
    ELSE Log(StartTimer(s, MillisUntilMidnight(now) + BufferMs),
             "schedule_next_midnight_check")

ScheduleNextMidnightCheck(s, now) ==
    IF s.crashed THEN s
    ELSE LET stopped == IF TimerActive(s)
                        THEN [s EXCEPT !.timers = [x \in DOMAIN s.timers \ {s.midnight_timer}
                                                      |-> s.timers[x]],
                                       !.midnight_timer = 0]
                        ELSE s
         IN  Log(StartTimer(stopped, MillisUntilMidnight(now) + BufferMs),
                 "schedule_next_midnight_check")

(***************************************************************************)
(* The handlers.                                                           *)
(***************************************************************************)
\* faulty variant: the next timer is scheduled first, the cleanup comes last
OnMidnightTimerTriggeredScheduleFirst(s, today, now) ==
    CleanExpiredEvents(
        UpdateTrayIcon(
            GoToToday(ScheduleNextMidnightCheck(Log(s, "_on_midnight_timer_triggered"), now),
                      today),
            today, TRUE),
        today)

\* faulty variant: the timer is not scheduled again
OnMidnightTimerTriggeredOnce(s, today, now) ==
    UpdateTrayIcon(
        GoToToday(CleanExpiredEvents(Log(s, "_on_midnight_timer_triggered"), today),
                  today),
        today, TRUE)

\* _on_midnight_timer_triggered
OnMidnightTimerTriggered(s, today, now) ==
    ScheduleNextMidnightCheck(
        UpdateTrayIcon(
            GoToToday(CleanExpiredEvents(Log(s, "_on_midnight_timer_triggered"), today),
                      today),
            today, TRUE),
        now)

\* faulty variant: the signal is ignored while the date shown is still today
HandleSystemTimeChangeIfNewDay(s, today, now) ==
    IF today = s.current_date THEN Log(s, "_handle_system_time_change")
    ELSE ScheduleNextMidnightCheck(
             UpdateTrayIcon(
                 GoToToday(CleanExpiredEvents(Log(s, "_handle_system_time_change"), today),
                           today),
                 today, TRUE),
             now)

\* _handle_system_time_change
HandleSystemTimeChange(s, today, now) ==
    ScheduleNextMidnightCheck(
        UpdateTrayIcon(
            GoToToday(CleanExpiredEvents(Log(s, "_handle_system_time_change"), today),
                      today),
            today, TRUE),
        now)

\* faulty variant: every tick refreshes and reschedules
OnMinuteTimerAlwaysRefresh(s, today) ==
    ScheduleNextMidnightCheck(UpdateTrayIcon(Log(s, "minute_timer"), today, TRUE), Midnight)

\* faulty variant: the tick never looks at the date
OnMinuteTimerIdle(s, today) == IF s.crashed THEN s ELSE Log(s, "minute_timer")

\* the minute timer's slot: update_tray_icon(force=False)
OnMinuteTimer(s, today) == UpdateTrayIcon(Log(s, "minute_timer"), today, FALSE)

\* PersianCalendarWidget.__init__
CreateCalendarWidget(s, today) ==
    IF s.crashed THEN s
    ELSE Log([s EXCEPT !.widget = TRUE, !.current_date = today], "calendar_widget")

\* _setup_timers
SetupTimers(s, now) ==
    IF s.crashed THEN s
    ELSE ScheduleNextMidnightCheck(Log([s EXCEPT !.minute_timer = TRUE], "setup_timers"), now)

\* SystemTrayIcon.__init__
Construct(s, file, today, now) ==
    LET holidays == LoadHolidaysFromFile(file)
        loaded == LoadUserEvents(
                      [Log(s, "__init__") EXCEPT !.holidays_cache = holidays.data])
        cleaned == CleanExpiredEvents(loaded, today)
        viewed == CreateCalendarWidget(cleaned, today)
        themed == UpdateTrayIcon(viewed, today, TRUE)
        timed == SetupTimers(themed, now)
    IN  IF holidays.error # "" THEN Raise(Log(s, "__init__"), holidays.error)
        ELSE UpdateTrayIcon(timed, today, TRUE)

(***************************************************************************)
(* The state.                                                              *)
(***************************************************************************)
VARIABLES
    phase,           \* "start" (before __init__), "running", "crashed"
    today,           \* the wall clock's date, jdatetime.date.today()
    holidays_file,   \* the holiday data source
    settings, user_events, holidays_cache, widget, minute_timer,
    current_date, icon, tooltip, midnight_timer, timers,
    steps,           \* the last handler and the calls it made, in order
    args,            \* the arguments of the last add / remove request that had a date
    ops,             \* the number of add / remove requests so far
    converter,       \* the date converter window
    calendar,        \* the calendar window under navigation
    clock            \* the wall clock's time of day, where it is followed

vars == <<phase, today, holidays_file, settings, user_events, holidays_cache, widget,
          minute_timer, current_date, icon, tooltip, midnight_timer, timers, steps,
          args, ops, converter, calendar, clock>>

\* the controller record of the current state, at the start of a handler
Ctl == [settings |-> settings, user_events |-> user_events,
        holidays_cache |-> holidays_cache, widget |-> widget,
        minute_timer |-> minute_timer, current_date |-> current_date,
        icon |-> icon, tooltip |-> tooltip, midnight_timer |-> midnight_timer,
        timers |-> timers, steps |-> <<>>, crashed |-> FALSE]

\* the attributes a handler leaves behind when it returns or raises
Commit(result) ==
    \E s \in {result} :
        /\ settings' = s.settings
        /\ user_events' = s.user_events
        /\ holidays_cache' = s.holidays_cache
        /\ widget' = s.widget
        /\ minute_timer' = s.minute_timer
        /\ current_date' = s.current_date
        /\ icon' = s.icon
        /\ tooltip' = s.tooltip
        /\ midnight_timer' = s.midnight_timer
        /\ timers' = s.timers
        /\ steps' = s.steps
        /\ phase' = IF s.crashed THEN "crashed" ELSE "running"

\* the time of day is not followed: each handler reads its own
NoTime == [ms |-> -1, us |-> 0]

NoArgs == [jdate |-> NoDate, text |-> NoneText, yearly |-> FALSE, raf |-> FALSE]

\* the single-shot timer t has timed out: it is no longer active
Fired(s, t) == [s EXCEPT !.timers = [x \in DOMAIN s.timers \ {t} |-> s.timers[x]]]

(***************************************************************************)
(* What the persistent store and the holiday file may hold at startup.     *)
(***************************************************************************)
FirstDate == CHOOSE d \in Dates : \A e \in Dates : ~DateLt(e, d)

\* one store per shape load, cleanup and lookup treat differently
RawStores ==
    {NoEvents,
     With(NoEvents, SpecificKey(FirstDate), StrValue("A")),
     With(NoEvents, YearlyKey(FirstDate), DictValue([text |-> "A", yearly |-> TRUE])),
     With(NoEvents, SpecificKey(FirstDate), Record("A", FALSE, TRUE)),
     With(NoEvents, BadKey, Record("A", FALSE, TRUE)),
     With(NoEvents, YearlyKey(FirstDate), Record("A", FALSE, TRUE)),
     With(NoEvents, YearlyKey(FirstDate), Record("A", TRUE, TRUE)),
     With(NoEvents, SpecificKey(FirstDate), OtherValue)}

\* {"holidays": {"1403": {"01-01": "Nowruz"}}}
NowruzEntry == Pair(<<"0", "1", "-", "0", "1">>, JStr("Nowruz"))
Year1403 == <<"1", "4", "0", "3">>
Year1404 == <<"1", "4", "0", "4">>
HolidaysJson(years) == [kind |-> "json", json |-> JDict(<<Pair("holidays", JDict(years))>>)]
NowruzFile == HolidaysJson(<<Pair(Year1403, JDict(<<NowruzEntry>>))>>)

Init ==
    /\ phase = "start"
    /\ today \in Dates
    /\ holidays_file = NowruzFile
    /\ settings \in RawStores
    /\ user_events = NoEvents
    /\ holidays_cache = NoHolidays
    /\ widget = FALSE
    /\ minute_timer = FALSE
    /\ current_date = NoDate
    /\ icon = NoIcon
    /\ tooltip = NoTooltip
    /\ midnight_timer = 0
    /\ timers = NoTimers
    /\ steps = <<>>
    /\ clock = NoTime
    /\ ops = 0
    /\ args = NoArgs
    /\ converter = NoConverter
    /\ calendar = NoCalendar

(***************************************************************************)
(* The actions.                                                            *)
(***************************************************************************)
\* main(): tray_icon = SystemTrayIcon(), at time of day `now`
StartupAt(now) ==
    /\ phase = "start"
    /\ Commit(Construct(Ctl, holidays_file, today, now))
    /\ args' = NoArgs
    /\ UNCHANGED <<clock, converter, calendar, today, holidays_file, ops>>

Startup == \E now \in TimesOfDay : StartupAt(now)

\* the minute timer times out
MinuteTick ==
    /\ phase = "running"
    /\ minute_timer
    /\ Commit(OnMinuteTimer(Ctl, today))
    /\ args' = NoArgs
    /\ UNCHANGED <<clock, converter, calendar, today, holidays_file, ops>>

\* the pending single-shot midnight timer t times out
MidnightFireOf(t, now) ==
    /\ phase = "running"
    /\ t \in DOMAIN timers
    /\ Commit(OnMidnightTimerTriggered(Fired(Ctl, t), today, now))
    /\ args' = NoArgs
    /\ UNCHANGED <<clock, converter, calendar, today, holidays_file, ops>>

MidnightFire == \E t \in TimerIds, now \in TimesOfDay : MidnightFireOf(t, now)

\* WM_TIMECHANGE reaches the native event filter
TimeChangeAt(now) ==
    /\ phase = "running"
    /\ Commit(HandleSystemTimeChange(Ctl, today, now))
    /\ args' = NoArgs
    /\ UNCHANGED <<clock, converter, calendar, today, holidays_file, ops>>

TimeChange == \E now \in TimesOfDay : TimeChangeAt(now)

\* the wall clock shows another date: time passes, or the clock is set
ClockChange ==
    /\ phase = "running"
    /\ \E d \in Dates \ {today} : today' = d
    /\ steps' = <<>>
    /\ args' = NoArgs
    /\ UNCHANGED <<clock, converter, calendar, phase, holidays_file, settings, user_events, holidays_cache, widget,
                   minute_timer, current_date, icon, tooltip, midnight_timer, timers,
                   ops>>

\* the view emits event_added
AddEventOf(jdate, text, yearly, raf) ==
    /\ phase = "running"
    /\ ops < MaxOps
    /\ Commit(AddUserEvent(Ctl, today, jdate, text, yearly, raf))
    /\ args' = IF jdate = NoDate THEN NoArgs
               ELSE [jdate |-> jdate, text |-> text, yearly |-> yearly, raf |-> raf]
    /\ ops' = ops + 1
    /\ UNCHANGED <<clock, converter, calendar, today, holidays_file>>

AddEvent ==
    \E jdate \in Dates \cup {NoDate}, text \in Texts, yearly \in BOOLEAN, raf \in BOOLEAN :
        AddEventOf(jdate, text, yearly, raf)

\* the view emits event_removed
RemoveEventOf(jdate) ==
    /\ phase = "running"
    /\ ops < MaxOps
    /\ Commit(RemoveUserEvent(Ctl, today, jdate, TRUE))
    /\ args' = [NoArgs EXCEPT !.jdate = jdate]
    /\ ops' = ops + 1
    /\ UNCHANGED <<clock, converter, calendar, today, holidays_file>>

RemoveEvent == \E jdate \in Dates \cup {NoDate} : RemoveEventOf(jdate)

Next ==
    \/ Startup
    \/ MinuteTick
    \/ MidnightFire
    \/ TimeChange
    \/ ClockChange
    \/ AddEvent
    \/ RemoveEvent

Spec == Init /\ [][Next]_vars

(***************************************************************************)
(* The same machine started on every shape of holiday source that          *)
(* _load_holidays_from_file tells apart, with an empty event store.        *)
(***************************************************************************)
\* no file at HOLIDAYS_FILE_PATH: open raises IOError
MissingFile == [kind |-> "missing"]
\* not JSON: json.load raises JSONDecodeError
UnparsableFile == [kind |-> "unparsable"]
\* []
ListRootFile == [kind |-> "json", json |-> JList(<<>>)]
\* {}
EmptyObjectFile == [kind |-> "json", json |-> JDict(<<>>)]
\* {"holidays": []}
HolidaysListFile == [kind |-> "json", json |-> JDict(<<Pair("holidays", JList(<<>>))>>)]
\* {"holidays": {"1403": []}}
YearListFile == HolidaysJson(<<Pair(Year1403, JList(<<>>))>>)
\* {"holidays": {"1403": {"01-01": "Nowruz", "bad": "x"}}}
BadEntryFile ==
    HolidaysJson(<<Pair(Year1403, JDict(<<NowruzEntry, Pair(<<"b", "a", "d">>, JStr("x"))>>))>>)
\* {"holidays": {"1403": {"01-01": "Nowruz"}, "1404": {"1-x": "x"}}}
BadEntryOtherYearFile ==
    HolidaysJson(<<Pair(Year1403, JDict(<<NowruzEntry>>)),
                   Pair(Year1404, JDict(<<Pair(<<"1", "-", "x">>, JStr("x"))>>))>>)
\* {"holidays": {"1403": {"01-01": ["Nowruz", "B"]}}}
ListReasonsFile ==
    HolidaysJson(<<Pair(Year1403,
                        JDict(<<Pair(<<"0", "1", "-", "0", "1">>, JList(<<"Nowruz", "B">>))>>))>>)
\* {"holidays": {"x": {}, "1403": []}}
BadYearThenListFile ==
    HolidaysJson(<<Pair(<<"x">>, JDict(<<>>)), Pair(Year1403, JList(<<>>))>>)

HolidaySources ==
    {NowruzFile, MissingFile, UnparsableFile, ListRootFile, EmptyObjectFile,
     HolidaysListFile, YearListFile, BadEntryFile, BadEntryOtherYearFile,
     ListReasonsFile, BadYearThenListFile}

HolidayInit ==
    /\ phase = "start"
    /\ today \in Dates
    /\ holidays_file \in HolidaySources
    /\ settings = NoEvents
    /\ user_events = NoEvents
    /\ holidays_cache = NoHolidays
    /\ widget = FALSE
    /\ minute_timer = FALSE
    /\ current_date = NoDate
    /\ icon = NoIcon
    /\ tooltip = NoTooltip
    /\ midnight_timer = 0
    /\ timers = NoTimers
    /\ steps = <<>>
    /\ clock = NoTime
    /\ ops = 0
    /\ args = NoArgs
    /\ converter = NoConverter
    /\ calendar = NoCalendar

HolidaySpec == HolidayInit /\ [][Next]_vars

(***************************************************************************)
(* The same machine started on persisted stores whose records have an      *)
(* empty text or none, next to a record with a text on a holiday.          *)
(***************************************************************************)
TextStores ==
    LET d == [year |-> 1403, month |-> 1, day |-> 1]
    IN  {With(NoEvents, SpecificKey(d), StrValue("")),
         With(NoEvents, YearlyKey(d), DictValue([yearly |-> TRUE])),
         With(NoEvents, SpecificKey(d), Record("", FALSE, FALSE)),
         With(NoEvents, SpecificKey(d), Record("A", FALSE, FALSE))}

TextInit ==
    /\ phase = "start"
    /\ today \in Dates
    /\ holidays_file = NowruzFile
    /\ settings \in TextStores
    /\ user_events = NoEvents
    /\ holidays_cache = NoHolidays
    /\ widget = FALSE
    /\ minute_timer = FALSE
    /\ current_date = NoDate
    /\ icon = NoIcon
    /\ tooltip = NoTooltip
    /\ midnight_timer = 0
    /\ timers = NoTimers
    /\ steps = <<>>
    /\ clock = NoTime
    /\ ops = 0
    /\ args = NoArgs
    /\ converter = NoConverter
    /\ calendar = NoCalendar

TextSpec == TextInit /\ [][Next]_vars

(***************************************************************************)
(* The date converter window.  A window is opened with a conversion type   *)
(* and a year typed in; _convert_date is then run with a month and a day   *)
(* text 1..31 selected.  It starts with _clear_results, so what it shows   *)
(* depends on these inputs alone, and each window is followed for one      *)
(* conversion.  Jalali input covers every year of the converter's range    *)
(* and one year beyond each end; Gregorian input covers the ends of its    *)
(* range, leap years and common years.                                     *)
(***************************************************************************)
JalaliYearTexts == {StrOf(y) : y \in (MIN_JALALI_YEAR - 1)..(MAX_JALALI_YEAR + 1)}
GregorianYears ==
    {MIN_GREGORIAN_YEAR - 1, MIN_GREGORIAN_YEAR, MIN_GREGORIAN_YEAR + 1,
     1900, 2000, 2024, 2025,
     MAX_GREGORIAN_YEAR - 1, MAX_GREGORIAN_YEAR, MAX_GREGORIAN_YEAR + 1}

ConverterInit ==
    /\ phase = "start"
    /\ today = FirstDate
    /\ holidays_file = NowruzFile
    /\ settings = NoEvents
    /\ user_events = NoEvents
    /\ holidays_cache = NoHolidays
    /\ widget = FALSE
    /\ minute_timer = FALSE
    /\ current_date = NoDate
    /\ icon = NoIcon
    /\ tooltip = NoTooltip
    /\ midnight_timer = 0
    /\ timers = NoTimers
    /\ steps = <<>>
    /\ clock = NoTime
    /\ ops = 0
    /\ args = NoArgs
    /\ calendar = NoCalendar
    /\ \/ \E year_text \in JalaliYearTexts \cup {<<>>} :
             converter = ConverterWindow(TRUE, year_text)
       \/ \E year_text \in {StrOf(y) : y \in GregorianYears} \cup {<<>>} :
             converter = ConverterWindow(FALSE, year_text)

\* convert_button.clicked, after the month and the day were selected
ConvertClickedAt(month, day) ==
    /\ converter' = ConvertDate([UpdateDayDropdown([converter EXCEPT !.month = month])
                                    EXCEPT !.day = day])
    /\ UNCHANGED <<clock, calendar, phase, today, holidays_file, settings, user_events, holidays_cache,
                   widget, minute_timer, current_date, icon, tooltip, midnight_timer,
                   timers, steps, args, ops>>

ConvertClicked ==
    /\ converter.status_message = "" /\ ~converter.output_visible
    /\ \E month \in 1..12, day \in 1..31 : ConvertClickedAt(month, day)

ConverterSpec == ConverterInit /\ [][ConvertClicked]_vars

(***************************************************************************)
(* Months: the calendar window under prev_month, next_month and            *)
(* go_to_date, and the converter's day combo under a change of month.  The *)
(* calendar is followed within CalendarYears and one step beyond the first *)
(* and the last year jdatetime accepts.                                    *)
(***************************************************************************)
CalendarYears == {1, 1403, 1404, 9377}

CalendarInit ==
    /\ phase = "start"
    /\ today = FirstDate
    /\ holidays_file = NowruzFile
    /\ settings = NoEvents
    /\ user_events = NoEvents
    /\ holidays_cache = NoHolidays
    /\ widget = FALSE
    /\ minute_timer = FALSE
    /\ current_date = NoDate
    /\ icon = NoIcon
    /\ tooltip = NoTooltip
    /\ midnight_timer = 0
    /\ timers = NoTimers
    /\ steps = <<>>
    /\ clock = NoTime
    /\ ops = 0
    /\ args = NoArgs
    /\ \E y \in {1403, 1404}, d \in {1, 31} :
          converter = [ConverterWindow(TRUE, StrOf(y)) EXCEPT !.day = d]
    /\ \E y \in CalendarYears, m \in 1..12, d \in {1, 29, 30, 31} :
          /\ ValidJalali(y, m, d)
          /\ calendar = Calendar([year |-> y, month |-> m, day |-> d])

\* prev_month / next_month; args keeps the date _navigate asks jdatetime for
NavigateBy(months) ==
    LET target == TargetMonth(calendar.display_date.year, calendar.display_date.month,
                              months)
    IN  /\ calendar.error = ""
        /\ target.year \in CalendarYears \cup {0, 9378}
        /\ calendar' = Navigate(calendar, months)
        /\ steps' = <<"_navigate">>
        /\ args' = [NoArgs EXCEPT !.jdate = [year |-> target.year, month |-> target.month,
                                             day |-> calendar.display_date.day]]
        /\ UNCHANGED <<clock, converter, phase, today, holidays_file, settings, user_events,
                       holidays_cache, widget, minute_timer, current_date, icon, tooltip,
                       midnight_timer, timers, ops>>

\* GoToDateWindow.date_selected(year, month); args keeps the month asked for
\* (GoToDateWindow._on_confirm emits years 1200..1600 only)
GoToDateSelected ==
    /\ calendar.error = ""
    /\ \E year \in {1403, 1404}, month \in 1..12 :
          /\ calendar' = GoToDate(calendar, year, month)
          /\ args' = [NoArgs EXCEPT !.jdate = [year |-> year, month |-> month, day |-> 0]]
    /\ steps' = <<"go_to_date">>
    /\ UNCHANGED <<clock, converter, phase, today, holidays_file, settings, user_events,
                   holidays_cache, widget, minute_timer, current_date, icon, tooltip,
                   midnight_timer, timers, ops>>

\* month_combo.currentIndexChanged: _update_day_dropdown, then _clear_results
MonthSelected ==
    /\ \E month \in 1..12 :
          converter' = ClearResults(UpdateDayDropdown([converter EXCEPT !.month = month]))
    /\ steps' = <<"_update_day_dropdown">>
    /\ args' = NoArgs
    /\ UNCHANGED <<clock, calendar, phase, today, holidays_file, settings, user_events,
                   holidays_cache, widget, minute_timer, current_date, icon, tooltip,
                   midnight_timer, timers, ops>>

CalendarNext ==
    \/ NavigateBy(-1)
    \/ NavigateBy(1)
    \/ GoToDateSelected
    \/ MonthSelected

CalendarSpec == CalendarInit /\ [][CalendarNext]_vars

(***************************************************************************)
(* The date shown under the timers alone: the application on every shape   *)
(* of persisted store, the clock changing, and the three handlers that     *)
(* look at the date.  The minute timer is a repeating QTimer started in    *)
(* _setup_timers and never stopped: as long as the event loop runs, its    *)
(* timeout is delivered, which is the weak fairness of MinuteTick.  A      *)
(* WM_TIMECHANGE message or the midnight timer may or may not come.        *)
(***************************************************************************)
LiveNext ==
    \/ Startup
    \/ MinuteTick
    \/ MidnightFire
    \/ TimeChange
    \/ ClockChange

LiveSpec == Init /\ [][LiveNext]_vars /\ WF_vars(MinuteTick)

(***************************************************************************)
(* The event store from empty: the application starts on an empty store    *)
(* and the store is then changed by add_user_event, remove_user_event and  *)
(* _clean_expired_events only (the cleanup runs in the midnight handler,   *)
(* after the date has changed).  Requests are not counted here: the store  *)
(* over StoreDates is finite.                                              *)
(***************************************************************************)
StoreDates ==
    {[year |-> 1402, month |-> 1, day |-> 1], [year |-> 1403, month |-> 1, day |-> 1],
     [year |-> 1403, month |-> 1, day |-> 2]}

StoreInit ==
    /\ phase = "start"
    /\ today \in StoreDates
    /\ holidays_file = NowruzFile
    /\ settings = NoEvents
    /\ user_events = NoEvents
    /\ holidays_cache = NoHolidays
    /\ widget = FALSE
    /\ minute_timer = FALSE
    /\ current_date = NoDate
    /\ icon = NoIcon
    /\ tooltip = NoTooltip
    /\ midnight_timer = 0
    /\ timers = NoTimers
    /\ steps = <<>>
    /\ clock = NoTime
    /\ ops = 0
    /\ args = NoArgs
    /\ converter = NoConverter
    /\ calendar = NoCalendar

\* the wall clock shows another date
StoreClockChange ==
    /\ phase = "running"
    /\ \E d \in StoreDates \ {today} : today' = d
    /\ steps' = <<>>
    /\ args' = NoArgs
    /\ UNCHANGED <<clock, converter, calendar, phase, holidays_file, settings, user_events,
                   holidays_cache, widget, minute_timer, current_date, icon, tooltip,
                   midnight_timer, timers, ops>>

\* the view emits event_added
StoreAdd ==
    \E jdate \in StoreDates \cup {NoDate}, text \in Texts, yearly \in BOOLEAN,
       raf \in BOOLEAN :
        /\ phase = "running"
        /\ Commit(AddUserEvent(Ctl, today, jdate, text, yearly, raf))
        /\ args' = IF jdate = NoDate THEN NoArgs
                   ELSE [jdate |-> jdate, text |-> text, yearly |-> yearly, raf |-> raf]
        /\ UNCHANGED <<clock, converter, calendar, today, holidays_file, ops>>

\* the view emits event_removed
StoreRemove ==
    \E jdate \in StoreDates \cup {NoDate} :
        /\ phase = "running"
        /\ Commit(RemoveUserEvent(Ctl, today, jdate, TRUE))
        /\ args' = [NoArgs EXCEPT !.jdate = jdate]
        /\ UNCHANGED <<clock, converter, calendar, today, holidays_file, ops>>

\* the startup, the changes of the date, the midnight timer's timeout (its
\* handler runs _clean_expired_events first), add and remove
StoreNext ==
    \/ StartupAt(Midnight)
    \/ StoreClockChange
    \/ \E t \in TimerIds : MidnightFireOf(t, Midnight)
    \/ StoreAdd
    \/ StoreRemove

StoreSpec == StoreInit /\ [][StoreNext]_vars

(***************************************************************************)
(* Keys: one date with a four-digit year, the key add_user_event derives   *)
(* for it as a one-off and as a yearly event, and the parse of that key by *)
(* _clean_expired_events.  The years hold the first and the last four-digit *)
(* year of jdatetime, a leap year (1403), and years that differ from one   *)
(* another in each of the four digits.                                     *)
(***************************************************************************)
KeyDates ==
    {d \in [year : {1000, 1403, 1414, 9377}, month : 1..12, day : 1..31] :
        ValidJalali(d.year, d.month, d.day)}

KeyInit ==
    /\ phase = "start"
    /\ today = [year |-> 1404, month |-> 1, day |-> 1]
    /\ holidays_file = NowruzFile
    /\ settings = NoEvents
    /\ user_events = NoEvents
    /\ holidays_cache = NoHolidays
    /\ widget = FALSE
    /\ minute_timer = FALSE
    /\ current_date = NoDate
    /\ icon = NoIcon
    /\ tooltip = NoTooltip
    /\ midnight_timer = 0
    /\ timers = NoTimers
    /\ steps = <<>>
    /\ clock = NoTime
    /\ ops = 0
    /\ \E d \in KeyDates : args = [NoArgs EXCEPT !.jdate = d]
    /\ converter = NoConverter
    /\ calendar = NoCalendar

\* add_user_event, lines 191-198: the key and the record written under it
KeyAdd(is_yearly) ==
    /\ user_events = NoEvents
    /\ steps = <<>>
    /\ user_events' = With(NoEvents,
                           IF is_yearly THEN YearlyKey(args.jdate)
                           ELSE SpecificKey(args.jdate),
                           Record("A", is_yearly, ~is_yearly))
    /\ steps' = <<"add_user_event">>
    /\ args' = [args EXCEPT !.yearly = is_yearly, !.raf = ~is_yearly]
    /\ UNCHANGED <<clock, converter, calendar, phase, today, holidays_file, settings,
                   holidays_cache, widget, minute_timer, current_date, icon, tooltip,
                   midnight_timer, timers, ops>>

\* _clean_expired_events, lines 222-236: the keys are parsed and compared
KeyCleanup ==
    /\ steps = <<"add_user_event">>
    /\ user_events' = Without(user_events,
                              {k \in DOMAIN user_events :
                                  Expired(k, user_events[k], today)})
    /\ steps' = <<"clean_expired_events">>
    /\ UNCHANGED <<clock, converter, calendar, phase, today, holidays_file, settings,
                   holidays_cache, widget, minute_timer, current_date, icon, tooltip,
                   midnight_timer, timers, ops, args>>

KeyNext ==
    \/ KeyAdd(FALSE)
    \/ KeyAdd(TRUE)
    \/ KeyCleanup

KeySpec == KeyInit /\ [][KeyNext]_vars

(***************************************************************************)
(* The delay of the midnight timer: the application on an empty store,     *)
(* with the wall clock's time of day followed.  Every handler that         *)
(* schedules the timer reads the clock.  DelayTimes leave whole numbers    *)
(* of milliseconds to midnight: the whole day, the last milliseconds,     *)
(* the buffer, and values on both sides of the ranges where the double     *)
(* product falls short; each is taken with and without microseconds.       *)
(***************************************************************************)
DelayTimes ==
    [ms : {DayMs - k : k \in {1, 2, 500, 501, 999, 1000, 1001, 1002, 1023, 1024, 2002,
                              43200000, 65536000, 65536001, 67108862, 86399999,
                              DayMs}},
     us : {0, 1, 999}]

DelayInit ==
    /\ phase = "start"
    /\ today = FirstDate
    /\ holidays_file = NowruzFile
    /\ settings = NoEvents
    /\ user_events = NoEvents
    /\ holidays_cache = NoHolidays
    /\ widget = FALSE
    /\ minute_timer = FALSE
    /\ current_date = NoDate
    /\ icon = NoIcon
    /\ tooltip = NoTooltip
    /\ midnight_timer = 0
    /\ timers = NoTimers
    /\ steps = <<>>
    /\ clock \in DelayTimes
    /\ ops = 0
    /\ args = NoArgs
    /\ converter = NoConverter
    /\ calendar = NoCalendar

\* time passes, or the clock is set
DelayClockSet ==
    /\ phase = "running"
    /\ \E t \in DelayTimes \ {clock} : clock' = t
    /\ steps' = <<>>
    /\ args' = NoArgs
    /\ UNCHANGED <<converter, calendar, phase, today, holidays_file, settings,
                   user_events, holidays_cache, widget, minute_timer, current_date,
                   icon, tooltip, midnight_timer, timers, ops>>

\* the startup, the clock, the midnight timer's timeout and WM_TIMECHANGE
DelayNext ==
    \/ StartupAt(clock)
    \/ DelayClockSet
    \/ \E t \in TimerIds : MidnightFireOf(t, clock)
    \/ TimeChangeAt(clock)

DelaySpec == DelayInit /\ [][DelayNext]_vars

(***************************************************************************)
(* Properties.                                                             *)
(***************************************************************************)
Handler == IF steps = <<>> THEN "" ELSE Head(steps)
Called(step) == \E i \in 1..Len(steps) : steps[i] = step
Pending == Cardinality(DOMAIN timers)

MainSteps == <<"clean_expired_events", "go_to_today", "update_tray_icon",
               "schedule_next_midnight_check">>
IsMainStep(step) == \E i \in 1..Len(MainSteps) : MainSteps[i] = step

SameMonthDay(a, b) == a.month = b.month /\ a.day = b.day

\* a dict value is a one-off record that is removed once its date has passed
OneOffAutoRemove(v) ==
    /\ v.kind = "dict"
    /\ ~Get(v, "yearly", FALSE)
    /\ Get(v, "remove_after_finish", FALSE)

\* C1: in every state (after setup and any interleaving of minute ticks,
\* midnight fires and time-change signals) at most one midnight timer is
\* pending, and it is the one self._midnight_timer refers to.
C1_AtMostOneMidnightTimer ==
    /\ Pending <= 1
    /\ \A t \in DOMAIN timers : t = midnight_timer

\* a time-change signal was handled while a timer was pending, and one is pending
C1_Witness ==
    /\ phase = "running"
    /\ Handler = "_handle_system_time_change"
    /\ Called("schedule_next_midnight_check")
    /\ Pending = 1

\* C2: a midnight fire runs cleanup, then the update of the date shown
\* (go_to_today), then the icon/tooltip refresh, then the scheduling of the
\* next timer, each once and in this order, and ends with the date shown
\* equal to today.
C2_MidnightOrder ==
    (phase = "running" /\ Handler = "_on_midnight_timer_triggered") =>
        /\ SelectSeq(steps, IsMainStep) = MainSteps
        /\ current_date = today
        /\ icon.day = today.day
        /\ Pending = 1

\* a midnight fire whose cleanup removed a record
C2_Witness ==
    /\ phase = "running"
    /\ Handler = "_on_midnight_timer_triggered"
    /\ Called("setValue")

SameOutcome(a, b) ==
    /\ a.crashed = b.crashed
    /\ a.user_events = b.user_events
    /\ a.settings = b.settings
    /\ a.current_date = b.current_date
    /\ a.icon = b.icon
    /\ a.tooltip = b.tooltip
    /\ a.midnight_timer = b.midnight_timer
    /\ a.timers = b.timers

\* C3: from every running state, whether or not the date shown equals today,
\* handling a time-change signal leaves the same event store, persisted store,
\* date shown, icon and pending timer as the fire of the pending midnight
\* timer handled at the same clock value, and it always reschedules.
C3_TimeChangeAsMidnightFire ==
    phase = "running" =>
        \A now \in TimesOfDay :
            LET changed == HandleSystemTimeChange(Ctl, today, now)
            IN  /\ SelectSeq(changed.steps, IsMainStep) = MainSteps
                /\ \A t \in DOMAIN timers :
                      SameOutcome(changed, OnMidnightTimerTriggered(Fired(Ctl, t), today, now))

\* a time-change signal has just been handled, the date shown is today, and
\* handling another signal now would again replace the pending timer
C3_Witness ==
    /\ phase = "running"
    /\ Handler = "_handle_system_time_change"
    /\ current_date = today
    /\ \E now \in TimesOfDay : HandleSystemTimeChange(Ctl, today, now).timers # timers

\* C4: a minute tick that finds a new date runs cleanup_expired(today) before
\* it resolves and shows today, so that no expired one-off record is left.
C4_TickCleansBeforeResolve ==
    (phase = "running" /\ Handler = "minute_timer" /\ Called("update_tray_icon")) =>
        /\ \E i, j \in 1..Len(steps) :
              i < j /\ steps[i] = "clean_expired_events" /\ steps[j] = "update_tray_icon"
        /\ \A d \in Dates :
              (DateLt(d, today) /\ SpecificKey(d) \in DOMAIN user_events)
                  => ~OneOffAutoRemove(user_events[SpecificKey(d)])

\* C5: a minute tick that finds the date shown equal to today changes nothing:
\* not the event store, the persisted store, the date shown, the icon, the
\* tooltip or the pending midnight timer, and it makes no further call.
C5_SameDayTickIsNoOp ==
    [][(MinuteTick /\ today = current_date) =>
          /\ UNCHANGED <<user_events, settings, current_date, icon, tooltip,
                         midnight_timer, timers, phase>>
          /\ steps' = <<"minute_timer">>]_vars

\* a minute tick has just been handled as a no-op
C5_Witness ==
    /\ phase = "running"
    /\ steps = <<"minute_timer">>
    /\ current_date = today

\* C6: when add(d, "A", yearly=false) is followed by add(d2, "B", yearly=true)
\* with d2 on d's month and day in another year, lookup(d) returns "A" as a
\* one-off, lookup(d2) returns "B" as yearly, and so does the lookup of that
\* month and day in every other year that holds no one-off record of its own
\* (every other year, when the store held nothing on that month and day).
C6_EventPrecedence ==
    [][\A d2 \in Dates, r \in BOOLEAN :
          ( /\ Handler = "add_user_event"
            /\ args.jdate # NoDate /\ args.text = "A" /\ ~args.yearly
            /\ SameMonthDay(args.jdate, d2) /\ d2.year # args.jdate.year
            /\ AddEventOf(d2, "B", TRUE, r) )
          => /\ GetUserEventForDate(user_events', args.jdate)
                    = Found(TRUE, "A", FALSE, args.raf)
             /\ GetUserEventForDate(user_events', d2) = Found(TRUE, "B", TRUE, FALSE)
             /\ \A d3 \in Dates :
                   ( /\ SameMonthDay(d3, d2) /\ d3.year # args.jdate.year
                     /\ SpecificKey(d3) \notin DOMAIN user_events' )
                   => GetUserEventForDate(user_events', d3) = Found(TRUE, "B", TRUE, FALSE)]_vars

\* the yearly "B" has just been added next to a one-off "A" of another year,
\* and a third year resolves to "B"
C6_Witness ==
    /\ phase = "running"
    /\ Handler = "add_user_event"
    /\ args.jdate # NoDate /\ args.text = "B" /\ args.yearly
    /\ \E d, d3 \in Dates :
          /\ d.year # args.jdate.year /\ d3.year # d.year /\ d3.year # args.jdate.year
          /\ GetUserEventForDate(user_events, d).text = "A"
          /\ ~GetUserEventForDate(user_events, d).yearly
          /\ GetUserEventForDate(user_events, d3) = Found(TRUE, "B", TRUE, FALSE)

\* C7: right after add(d, ...) with a present date, exactly one record exists
\* under d's specific key and d's yearly key together.
C7_OneRecordPerDate ==
    (phase = "running" /\ Handler = "add_user_event" /\ args.jdate # NoDate) =>
        Cardinality({SpecificKey(args.jdate), YearlyKey(args.jdate)}
                        \cap DOMAIN user_events) = 1

\* a one-off add has deleted the yearly record of its month and day
C7_Witness ==
    /\ phase = "running"
    /\ Handler = "add_user_event"
    /\ args.jdate # NoDate /\ ~args.yearly
    /\ Called("del_yearly_key")
    /\ SpecificKey(args.jdate) \in DOMAIN user_events

\* C8: the record add writes carries the yearly flag given, and
\* remove_after_finish = false whenever it is yearly.
C8_YearlyAddClearsAutoRemove ==
    (phase = "running" /\ Handler = "add_user_event" /\ args.jdate # NoDate) =>
        LET key == IF args.yearly THEN YearlyKey(args.jdate) ELSE SpecificKey(args.jdate)
        IN  /\ key \in DOMAIN user_events
            /\ user_events[key].kind = "dict"
            /\ user_events[key].d.yearly = args.yearly
            /\ user_events[key].d.yearly => ~user_events[key].d.remove_after_finish

\* add(d, text, yearly=true, remove_after_finish=true) has just run
C8_Witness ==
    /\ phase = "running"
    /\ Handler = "add_user_event"
    /\ args.jdate # NoDate /\ args.yearly /\ args.raf
    /\ ~user_events[YearlyKey(args.jdate)].d.remove_after_finish

\* C9: every record of the event store of a running controller satisfies
\* yearly => not remove_after_finish.
C9_YearlyNeverAutoRemove ==
    phase = "running" =>
        \A k \in DOMAIN user_events :
            user_events[k].kind = "dict" =>
                (Get(user_events[k], "yearly", FALSE)
                    => ~Get(user_events[k], "remove_after_finish", FALSE))

\* C10: when a handler that runs cleanup_expired(today) has returned, no
\* one-off record with remove_after_finish set and a date before today is left.
C10_CleanupRemovesExpired ==
    (phase = "running" /\ Called("clean_expired_events")) =>
        \A d \in Dates :
            (DateLt(d, today) /\ SpecificKey(d) \in DOMAIN user_events)
                => ~OneOffAutoRemove(user_events[SpecificKey(d)])

\* a time change or midnight fire whose cleanup removed a record and saved
C10_Witness ==
    /\ phase = "running"
    /\ Handler \in {"_handle_system_time_change", "_on_midnight_timer_triggered"}
    /\ Called("setValue")
    /\ \E d \in Dates : DateLt(d, today) /\ SpecificKey(d) \notin DOMAIN user_events

\* a cleanup has to keep the record under key k: it is yearly, or it is not
\* marked remove_after_finish, or it is dated today or later
MustKeep(k) ==
    LET v == user_events[k]
    IN  /\ v.kind = "dict"
        /\ \/ Get(v, "yearly", FALSE)
           \/ ~Get(v, "remove_after_finish", FALSE)
           \/ \E d \in Dates : k = SpecificKey(d) /\ ~DateLt(d, today)

KeptUnchanged(k) == k \in DOMAIN user_events' /\ user_events'[k] = user_events[k]

\* the step is a run of handler h (every handler starts the log with its name)
Ran(h) == steps' # <<>> /\ Head(steps') = h
RanCleanup == Ran("_on_midnight_timer_triggered") \/ Ran("_handle_system_time_change")

\* C11: the cleanup of a midnight fire or a time-change signal leaves every
\* record that is yearly, or has remove_after_finish false, or is dated today
\* or later, in the store and unchanged.
C11_CleanupKeepsTheRest ==
    [][RanCleanup =>
          \A k \in DOMAIN user_events : MustKeep(k) => KeptUnchanged(k)]_vars

\* a cleanup has removed an expired record and kept the auto-remove record
\* dated today
C11_Witness ==
    /\ phase = "running"
    /\ Handler \in {"_handle_system_time_change", "_on_midnight_timer_triggered"}
    /\ Called("setValue")
    /\ SpecificKey(today) \in DOMAIN user_events
    /\ OneOffAutoRemove(user_events[SpecificKey(today)])

\* the store holds dicts only, one of them an auto-remove record under a key
\* that is no date
HasSkippedKey(store) ==
    /\ \A k \in DOMAIN store : store[k].kind = "dict"
    /\ \E k \in DOMAIN store : ~StrpTime(k).ok /\ OneOffAutoRemove(store[k])

ExpiredIn(store, d) ==
    /\ DateLt(d, today)
    /\ SpecificKey(d) \in DOMAIN store
    /\ OneOffAutoRemove(store[SpecificKey(d)])

\* of `store`, the step keeps every record whose key is no date and removes
\* every expired record
SkipsBadKeys(store) ==
    /\ \A k \in DOMAIN store :
          ~StrpTime(k).ok => (k \in DOMAIN user_events' /\ user_events'[k] = store[k])
    /\ \A d \in Dates : ExpiredIn(store, d) => SpecificKey(d) \notin DOMAIN user_events'

C13_UnmigratedValueIsSkipped ==
    (\E k \in DOMAIN user_events : user_events[k].kind = "other") => phase # "crashed"

\* C14: startup on a persisted store whose values are all dicts completes,
\* also when the store holds an expired auto-remove record.
C14_StartupCompletes ==
    (Handler = "__init__" /\ \A k \in DOMAIN user_events : user_events[k].kind = "dict")
        => phase = "running"

\* load wrote to the persistent store: setValue directly follows the load
LoadWrote == Len(steps') >= 3 /\ steps'[2] = "load_user_events" /\ steps'[3] = "setValue"

\* C15: after a startup that completes, the store has the keys of the persisted
\* map; a bare string s has become {text: s, yearly: false,
\* remove_after_finish: false}, a dict without remove_after_finish has gained
\* it as false and kept its other fields, and a dict that had it is unchanged.
C15_LoadMigrates ==
    [][(Ran("__init__") /\ phase' = "running") =>
          /\ DOMAIN user_events' = DOMAIN settings
          /\ \A k \in DOMAIN settings :
                LET v == settings[k]
                    w == user_events'[k]
                IN  /\ v.kind = "str" => w = Record(v.text, FALSE, FALSE)
                    /\ (v.kind = "dict" /\ "remove_after_finish" \notin DOMAIN v.d) =>
                          /\ w.kind = "dict"
                          /\ DOMAIN w.d = DOMAIN v.d \cup {"remove_after_finish"}
                          /\ w.d.remove_after_finish = FALSE
                          /\ \A f \in DOMAIN v.d : w.d[f] = v.d[f]
                    /\ (v.kind = "dict" /\ "remove_after_finish" \in DOMAIN v.d) => w = v]_vars

\* startup has migrated a bare string and written the result
C15_Witness ==
    /\ phase = "running"
    /\ Handler = "__init__"
    /\ Len(steps) >= 3 /\ steps[3] = "setValue"
    /\ \E k \in DOMAIN user_events : user_events[k] = Record("A", FALSE, FALSE)

\* C16: the load of startup writes to the persistent store exactly when an
\* entry was a bare string or a dict without remove_after_finish; without a
\* write the persisted map is as it was; and loading what the store holds
\* after startup returns that very map and writes nothing.
C16_LoadWritesIffMigrated ==
    [][Ran("__init__") =>
          LET migrated == \E k \in DOMAIN settings :
                              \/ settings[k].kind = "str"
                              \/ /\ settings[k].kind = "dict"
                                 /\ "remove_after_finish" \notin DOMAIN settings[k].d
              again == LoadUserEvents([Ctl EXCEPT !.settings = settings'])
          IN  /\ LoadWrote <=> migrated
              /\ (~migrated /\ phase' = "running") => settings' = settings
              /\ again.steps = <<"load_user_events">>
              /\ again.user_events = settings'
              /\ again.settings = settings']_vars

\* startup has loaded a non-empty map in the current shape without a write
C16_Witness ==
    /\ phase = "running"
    /\ Handler = "__init__"
    /\ ~Called("setValue")
    /\ user_events # NoEvents
    /\ settings = user_events

\* C17: whenever a handler has returned (startup with its load, add, remove,
\* the cleanup of a midnight fire or a time-change signal, a minute tick), the
\* persisted map equals the event store.
C17_PersistedEqualsStore == phase = "running" => settings = user_events

\* a remove has deleted a key and saved, and a record is left in the store
C17_Witness ==
    /\ phase = "running"
    /\ Handler = "remove_user_event"
    /\ Called("setValue")
    /\ user_events # NoEvents
    /\ settings = user_events

NoEvent == Found(TRUE, NoneText, FALSE, FALSE)

\* C18: right after remove(d) with a present date, neither d's specific key nor
\* d's yearly key is in the store and the lookup of d finds no event; the
\* lookup of the same month and day in another year finds that year's own
\* one-off record or nothing, never a yearly event.
C18_RemoveDeletesBothKeys ==
    (phase = "running" /\ Handler = "remove_user_event" /\ args.jdate # NoDate) =>
        /\ SpecificKey(args.jdate) \notin DOMAIN user_events
        /\ YearlyKey(args.jdate) \notin DOMAIN user_events
        /\ GetUserEventForDate(user_events, args.jdate) = NoEvent
        /\ \A d \in Dates :
              SameMonthDay(d, args.jdate) =>
                  IF SpecificKey(d) \in DOMAIN user_events
                  THEN GetUserEventForDate(user_events, d).text
                           = Get(user_events[SpecificKey(d)], "text", NoneText)
                  ELSE GetUserEventForDate(user_events, d) = NoEvent

\* a remove has deleted the specific key and the yearly key of its date
C18_Witness ==
    /\ phase = "running"
    /\ Handler = "remove_user_event"
    /\ args.jdate # NoDate
    /\ Called("del_specific_key")
    /\ Called("del_yearly_key")

\* C19: a remove without a date, or of a date whose specific key and yearly key
\* are both absent, changes neither the store nor the persisted map nor what is
\* shown, and makes no call; and a remove that writes to the persistent store
\* has deleted a key.
C19_RemoveOfNothingIsNoOp ==
    [][Ran("remove_user_event") =>
          LET d == args'.jdate
          IN  /\ ( \/ d = NoDate
                   \/ /\ SpecificKey(d) \notin DOMAIN user_events
                      /\ YearlyKey(d) \notin DOMAIN user_events )
                  => /\ UNCHANGED <<user_events, settings, current_date, icon, tooltip,
                                    midnight_timer, timers, phase>>
                     /\ steps' = <<"remove_user_event">>
              /\ (\E i \in 1..Len(steps') : steps'[i] = "setValue")
                  => /\ DOMAIN user_events' # DOMAIN user_events
                     /\ DOMAIN user_events' \subseteq DOMAIN user_events]_vars

\* a remove of a date with no record has run on a store that holds a record
C19_Witness ==
    /\ phase = "running"
    /\ steps = <<"remove_user_event">>
    /\ args.jdate # NoDate
    /\ user_events # NoEvents

\* C20: for a date whose specific key is absent and whose yearly key holds a
\* record, the lookup returns that record's text and remove_after_finish with
\* yearly reported as true, in every year and whatever yearly value is stored.
C20_YearlyKeyReportsYearly ==
    \A d \in Dates :
        ( /\ SpecificKey(d) \notin DOMAIN user_events
          /\ YearlyKey(d) \in DOMAIN user_events
          /\ user_events[YearlyKey(d)].kind = "dict" )
        => LET v == user_events[YearlyKey(d)]
           IN  GetUserEventForDate(user_events, d)
                   = Found(TRUE, Get(v, "text", NoneText), TRUE,
                           Get(v, "remove_after_finish", FALSE))

\* the tray shows today the event of a record under the yearly key whose
\* stored yearly value is false
C20_Witness ==
    /\ phase = "running"
    /\ SpecificKey(today) \notin DOMAIN user_events
    /\ YearlyKey(today) \in DOMAIN user_events
    /\ user_events[YearlyKey(today)].kind = "dict"
    /\ ~Get(user_events[YearlyKey(today)], "yearly", FALSE)
    /\ GetUserEventForDate(user_events, today).yearly
    /\ tooltip.event = "A"

(***************************************************************************)
(* The holiday index.                                                      *)
(***************************************************************************)
\* the entries of the source that parse: year key an integer, "MM-DD" key two
\* integers, under objects of the expected shape
WellFormedEntries(file) ==
    IF file.kind # "json" \/ file.json.kind # "dict" THEN {}
    ELSE LET raw_data == JGet(file.json, "holidays", JDict(<<>>))
         IN  IF raw_data.kind # "dict" THEN {}
             ELSE UNION {
                    LET y == raw_data.items[i]
                    IN  IF ~AllDigits(y.key) \/ y.value.kind # "dict" THEN {}
                        ELSE {[year |-> IntOf(y.key),
                               month_day |-> MonthDayOf(y.value.items[j].key),
                               reasons |-> Reasons(y.value.items[j].value)] :
                                  j \in {k \in 1..Len(y.value.items) :
                                            MonthDayParses(y.value.items[k].key)}}
                    : i \in 1..Len(raw_data.items)}

InIndex(cache, e) ==
    /\ e.year \in DOMAIN cache
    /\ e.month_day \in DOMAIN cache[e.year]
    /\ cache[e.year][e.month_day] = e.reasons

\* C21: a malformed "MM-DD" entry of the holiday source drops only that entry:
\* once the controller is constructed, every entry of the source that parses
\* is in the index with its reasons.
C21_MalformedEntryDropsOnlyItself ==
    phase = "running" =>
        \A e \in WellFormedEntries(holidays_file) : InIndex(holidays_cache, e)

\* C22: building the index never fails: whatever the source holds, __init__
\* gets past _load_holidays_from_file and goes on to load the user events.
C22_HolidayLoadNeverFails ==
    Handler = "__init__" => Called("load_user_events")

(***************************************************************************)
(* The resolved day: holiday, user event, colour.                          *)
(***************************************************************************)
\* the index holds a non-empty reason list under the date's own year
HasReasons(d) ==
    \E y \in DOMAIN holidays_cache :
        /\ y = d.year
        /\ \E md \in DOMAIN holidays_cache[y] :
              md = <<d.month, d.day>> /\ Len(holidays_cache[y][md]) > 0

Rendered == phase = "running" /\ current_date # NoDate

\* C23: a date is a holiday exactly when its weekday is 6 (Friday) or the index
\* holds a non-empty reason list for its year, month and day.  In the tray, a
\* rendered date without a user event has the holiday colour exactly then; in
\* the grid, is_holiday or is_friday holds exactly then, for every date and
\* both kinds of cell.  An entry of another year does not count.
C23_HolidayIffFridayOrReasons ==
    /\ Rendered /\ tooltip.event = NoneText =>
          /\ icon.color = "HOLIDAY_COLOR" <=>
                (Weekday(current_date) = 6 \/ HasReasons(current_date))
          /\ tooltip.holidays # <<>> <=> HasReasons(current_date)
    /\ \A d \in Dates, is_in_month \in BOOLEAN :
          LET style == DetermineDayStyle(user_events, holidays_cache, d, is_in_month)
          IN  /\ style.is_friday <=> Weekday(d) = 6
              /\ style.is_holiday <=> HasReasons(d)

\* 1402-01-01, a Tuesday, is rendered as a plain day although the index holds
\* 01-01 of the year 1403
C23_Witness ==
    /\ Rendered
    /\ current_date = [year |-> 1402, month |-> 1, day |-> 1]
    /\ Weekday(current_date) = 3
    /\ HasReasons([year |-> 1403, month |-> 1, day |-> 1])
    /\ tooltip.event = NoneText
    /\ icon.color = "TRAY_ICON_COLOR"

\* the colour the precedence asks for: event, then holiday or Friday, then plain
Precedence(has_event, d, event_color, holiday_color, plain_color) ==
    IF has_event THEN event_color
    ELSE IF Weekday(d) = 6 \/ HasReasons(d) THEN holiday_color
    ELSE plain_color

\* C24: the colour of a day follows user event > holiday or Friday > plain, in
\* the tray icon for the rendered date and in every in-month cell of the grid.
C24_ColorPrecedence ==
    /\ Rendered =>
          icon.color = Precedence(HasUserEvent(user_events, current_date), current_date,
                                  "ACCENT_COLOR", "HOLIDAY_COLOR", "TRAY_ICON_COLOR")
    /\ \A d \in Dates :
          LET style == DetermineDayStyle(user_events, holidays_cache, d, TRUE)
          IN  style.ok =>
                style.text_color = Precedence(HasUserEvent(user_events, d), d,
                                              "ACCENT_COLOR", "HOLIDAY_COLOR", "TEXT_COLOR")

\* a date with a user event that is a holiday (1403-01-01) or a Friday
\* (1404-01-01) is rendered in the event colour
C24_Witness ==
    /\ Rendered
    /\ Weekday(current_date) = 6 \/ HasReasons(current_date)
    /\ HasUserEvent(user_events, current_date)
    /\ icon.color = "ACCENT_COLOR"
    /\ DetermineDayStyle(user_events, holidays_cache, current_date, TRUE).text_color
          = "ACCENT_COLOR"

\* lookup finds a record for d: its specific key or its yearly key is stored
HasRecord(d) == SpecificKey(d) \in DOMAIN user_events \/ YearlyKey(d) \in DOMAIN user_events

\* C25: a date has a user event exactly when lookup finds a record for it,
\* whatever the holiday flag: the tray shows the event of the rendered date
\* and the grid marks the cell exactly when a record is stored, and on a
\* holiday with a record both the reasons and the event text are shown.
C25_RecordMeansUserEvent ==
    /\ Rendered =>
          /\ tooltip.event # NoneText <=> HasRecord(current_date)
          /\ HasRecord(current_date) /\ HasReasons(current_date) =>
                tooltip.holidays # <<>> /\ tooltip.event # NoneText
    /\ phase = "running" =>
          \A d \in Dates : HasUserEvent(user_events, d) <=> HasRecord(d)

(***************************************************************************)
(* The date converter.                                                     *)
(***************************************************************************)
Clicked == converter.status_message # "" \/ converter.output_visible

TypedYear == IntOf(converter.year_text)

\* C26: for every valid Jalali date with a year in 1..1600 the converter shows
\* a Gregorian date, and converting that date back gives the Jalali date that
\* was entered.
C26_RoundTrip ==
    Clicked /\ converter.is_jalali_input /\ converter.year_text # <<>>
    /\ MIN_JALALI_YEAR <= TypedYear /\ TypedYear <= MAX_JALALI_YEAR
    /\ ValidJalali(TypedYear, converter.month, converter.day)
    => /\ converter.output_visible
       /\ converter.jalali_date =
              [year |-> TypedYear, month |-> converter.month, day |-> converter.day]
       /\ FromGregorian(converter.gregorian_date) = Converted(TRUE, converter.jalali_date)

\* the last day of the leap year 1403 is shown as 2025-03-20
C26_Witness ==
    /\ converter.output_visible
    /\ converter.is_jalali_input
    /\ converter.jalali_date = [year |-> 1403, month |-> 12, day |-> 30]
    /\ converter.gregorian_date = [year |-> 2025, month |-> 3, day |-> 20]
    /\ FromGregorian(converter.gregorian_date).date = converter.jalali_date

\* the window w holds a year in the range of its calendar and a valid date
Accepted(w) ==
    /\ w.year_text # <<>>
    /\ IF w.is_jalali_input
       THEN /\ MIN_JALALI_YEAR <= IntOf(w.year_text) /\ IntOf(w.year_text) <= MAX_JALALI_YEAR
            /\ ValidJalali(IntOf(w.year_text), w.month, w.day)
       ELSE /\ MIN_GREGORIAN_YEAR <= IntOf(w.year_text)
            /\ IntOf(w.year_text) <= MAX_GREGORIAN_YEAR
            /\ ValidGregorian(IntOf(w.year_text), w.month, w.day)

ResultOnlyIfAccepted(w) ==
    /\ w.output_visible => Accepted(w) /\ w.status_message = ""
    /\ ~Accepted(w) =>
          /\ w.status_message # ""
          /\ ~w.output_visible
          /\ w.jalali_date = NoDate /\ w.gregorian_date = NoDate

\* C29: after _convert_date a result is visible only if the year is in the
\* range of the input calendar and the date is valid; for an empty year, a
\* year out of range or an invalid date the window shows an error, hides the
\* result and holds no converted date.
C29_ResultOnlyForValidInput == Clicked => ResultOnlyIfAccepted(converter)

\* the year 1601 is refused
C29_Witness ==
    /\ converter.is_jalali_input
    /\ converter.year_text = <<"1", "6", "0", "1">>
    /\ converter.status_message = "Jalali year out of range"
    /\ ~converter.output_visible
    /\ converter.gregorian_date = NoDate

(***************************************************************************)
(* Month lengths and navigation.                                           *)
(***************************************************************************)
\* days_in_month agrees with the leap rule and with the dates jdatetime builds
MonthLengthsOf(y) ==
    /\ \A m \in 1..6 : days_in_month(y, m) = 31
    /\ \A m \in 7..11 : days_in_month(y, m) = 30
    /\ days_in_month(y, 12) = 30 <=> is_jalali_leap_year(y)
    /\ days_in_month(y, 12) = 29 <=> ~is_jalali_leap_year(y)
    /\ \A m \in 1..12 :
          /\ ValidJalali(y, m, days_in_month(y, m))
          /\ ~ValidJalali(y, m, days_in_month(y, m) + 1)

\* C27: the twelfth month has 30 days exactly in a leap year and 29 otherwise,
\* the months 1..6 have 31 days and the months 7..11 have 30, both for the
\* year on display and in the day combo of the converter; and a month
\* navigation that cannot keep the day lands on the last day of the target
\* month as days_in_month gives it.
C27_MonthLengths ==
    /\ calendar # NoCalendar => MonthLengthsOf(calendar.display_date.year)
    /\ converter # NoConverter /\ converter.is_jalali_input =>
          /\ converter.month \in 1..6 => converter.days = 31
          /\ converter.month \in 7..11 => converter.days = 30
          /\ converter.month = 12 =>
                converter.days = (IF isleap(IntOf(converter.year_text)) THEN 30 ELSE 29)
    /\ Handler = "_navigate" /\ calendar.error = "" /\ calendar.display_date # args.jdate =>
          calendar.display_date =
              [args.jdate EXCEPT !.day = days_in_month(args.jdate.year, args.jdate.month)]

\* next_month from 1404-11-30 lands on 1404-12-29, and the day combo offers 29
\* days for the twelfth month of 1404
C27_Witness ==
    /\ Handler = "_navigate"
    /\ args.jdate = [year |-> 1404, month |-> 12, day |-> 30]
    /\ calendar.display_date = [year |-> 1404, month |-> 12, day |-> 29]
    /\ converter.year_text = <<"1", "4", "0", "4">>
    /\ converter.month = 12
    /\ converter.days = 29

\* C28: an invalid year, month and day is reported and never replaced by
\* another date: after a month navigation the calendar shows exactly the date
\* that was asked for, or an error left the operation.
C28_InvalidDateIsReported ==
    Handler = "_navigate" => calendar.display_date = args.jdate \/ calendar.error # ""

(***************************************************************************)
(* The forced refresh.                                                     *)
(***************************************************************************)
\* the controller after one more forced refresh at the same clock value
Again(s, now) == HandleSystemTimeChange([s EXCEPT !.steps = <<>>], today, now)

Wrote(s) == \E i \in 1..Len(s.steps) : s.steps[i] = "setValue"

\* C30: a forced refresh (cleanup, date shown, icon, reschedule) run twice in
\* a row at the same clock value leaves what one run leaves: the same event
\* store and persisted store, the same date shown with the same icon and
\* tooltip, and exactly one pending midnight timer with the same delay; the
\* second run writes nothing to the persistent store.
C30_ForcedRefreshIdempotent ==
    phase = "running" =>
        \A now \in TimesOfDay :
            LET once == HandleSystemTimeChange(Ctl, today, now)
                twice == Again(once, now)
            IN  ~once.crashed =>
                  /\ ~twice.crashed
                  /\ twice.user_events = once.user_events
                  /\ twice.settings = once.settings
                  /\ twice.current_date = once.current_date
                  /\ twice.icon = once.icon
                  /\ twice.tooltip = once.tooltip
                  /\ Cardinality(DOMAIN once.timers) = 1
                  /\ Cardinality(DOMAIN twice.timers) = 1
                  /\ \A t \in DOMAIN once.timers, u \in DOMAIN twice.timers :
                        twice.timers[u] = once.timers[t]
                  /\ ~Wrote(twice)

\* a forced refresh has just removed an expired record and written the store,
\* and one more refresh now changes neither
C30_Witness ==
    /\ phase = "running"
    /\ Handler = "_handle_system_time_change"
    /\ Called("setValue")
    /\ \A now \in TimesOfDay :
          /\ ~Wrote(Again(Ctl, now))
          /\ Again(Ctl, now).user_events = user_events
          /\ Again(Ctl, now).settings = settings

(***************************************************************************)
(* The store built by add, remove and cleanup from empty.                  *)
(***************************************************************************)
IsWildcardKey(k) == Len(k) = 10 /\ SubSeq(k, 1, 5) = <<"0", "0", "0", "0", "-">>
IsSpecificKey(k) == \E d \in StoreDates : k = SpecificKey(d)

\* C31: in a store that add, remove and cleanup built from the empty store,
\* every value is a record; a record lies under a wildcard key (year 0000)
\* exactly when its yearly field is true, and under the specific key of a date
\* exactly when its yearly field is false.  The persisted store agrees.
C31_WildcardIffYearly ==
    /\ settings = user_events
    /\ \A k \in DOMAIN user_events :
          /\ user_events[k].kind = "dict"
          /\ DOMAIN user_events[k].d = {"text", "yearly", "remove_after_finish"}
          /\ IsWildcardKey(k) <=> user_events[k].d.yearly
          /\ IsSpecificKey(k) <=> ~user_events[k].d.yearly

\* after a cleanup the store holds a yearly record and a one-off record
C31_Witness ==
    /\ phase = "running"
    /\ Handler = "_on_midnight_timer_triggered"
    /\ \E k \in DOMAIN user_events : IsWildcardKey(k) /\ user_events[k].d.yearly
    /\ \E k \in DOMAIN user_events : IsSpecificKey(k) /\ ~user_events[k].d.yearly

(***************************************************************************)
(* Keys.                                                                   *)
(***************************************************************************)
\* C32: for every valid date d with a four-digit year, the specific key of d
\* parses (as the cleanup parses keys) to d again; no other date has the same
\* specific key; the wildcard key of d is the wildcard key of exactly the
\* dates with d's month and day; no date's specific key is a wildcard key.
\* A one-off record is therefore removed by the cleanup exactly when d is
\* before today, and a yearly record never.
C32_KeysAreCanonical ==
    LET d == args.jdate
    IN  /\ Handler = "add_user_event" /\ ~args.yearly =>
              /\ DOMAIN user_events = {SpecificKey(d)}
              /\ StrpTime(SpecificKey(d)) = [ok |-> TRUE, date |-> d]
              /\ \A e \in KeyDates :
                    /\ SpecificKey(e) = SpecificKey(d) => e = d
                    /\ YearlyKey(e) # SpecificKey(d)
        /\ Handler = "add_user_event" /\ args.yearly =>
              /\ DOMAIN user_events = {YearlyKey(d)}
              /\ \A e \in KeyDates :
                    /\ YearlyKey(e) = YearlyKey(d) <=> SameMonthDay(e, d)
                    /\ SpecificKey(e) # YearlyKey(d)
        /\ Handler = "clean_expired_events" /\ ~args.yearly =>
              (user_events = NoEvents <=> DateLt(d, today))
        /\ Handler = "clean_expired_events" /\ args.yearly =>
              DOMAIN user_events = {YearlyKey(d)}

\* the one-off key of the last day of a leap year has been parsed and the
\* record, dated before today, removed
C32_Witness ==
    /\ Handler = "clean_expired_events"
    /\ args.jdate = [year |-> 1403, month |-> 12, day |-> 30]
    /\ ~args.yearly
    /\ user_events = NoEvents

(***************************************************************************)
(* The delay of the midnight timer.                                        *)
(***************************************************************************)
\* the whole number of milliseconds from now to the next midnight
WholeMillis(now) == DayMs - now.ms - (IF now.us > 0 THEN 1 ELSE 0)

Scheduled ==
    /\ phase = "running"
    /\ clock # NoTime
    /\ Called("schedule_next_midnight_check")

\* C33: the delay given to the midnight timer is the whole number of
\* milliseconds from now to the next midnight plus the 500 ms buffer; it is
\* greater than 500 ms and at most 86,400,500 ms.
C33_DelayIsWholeMillisPlusBuffer ==
    Scheduled =>
        /\ timers[midnight_timer] = WholeMillis(clock) + BufferMs
        /\ timers[midnight_timer] > BufferMs
        /\ timers[midnight_timer] <= DayMs + BufferMs

(***************************************************************************)
(* The midnight timer is re-armed.                                         *)
(***************************************************************************)
\* C34: once setup has completed, in every state between events exactly one
\* midnight timer is pending, and it is the one the controller holds; no
\* handler ends the process, so this lasts: the only uncaught exception is
\* one raised by the setup itself.
C34_TimerAlwaysRearmed ==
    /\ phase = "running" =>
          /\ Pending = 1
          /\ midnight_timer \in DOMAIN timers
          /\ timers[midnight_timer] >= BufferMs
    /\ phase = "crashed" => Handler = "__init__"

\* the midnight handler has removed an expired record, written the store and
\* scheduled the next timer
C34_Witness ==
    /\ phase = "running"
    /\ Handler = "_on_midnight_timer_triggered"
    /\ Called("setValue")
    /\ Called("schedule_next_midnight_check")
    /\ Pending = 1

(***************************************************************************)
(* The date shown follows the clock.                                       *)
(***************************************************************************)
\* C35: whenever the date shown differs from today, whatever changed the
\* clock and whether or not a time-change signal came, the date shown
\* eventually equals today again, given that minute ticks keep being
\* delivered; and each minute tick, midnight fire or time-change signal that
\* is handled leaves the date shown equal to today.
C35_DateShownCatchesUp ==
    /\ (phase = "running" /\ current_date # today) ~> (current_date = today)
    /\ [][(Ran("minute_timer") \/ Ran("_on_midnight_timer_triggered")
              \/ Ran("_handle_system_time_change"))
            => current_date' = today']_vars

\* a minute tick found another date than the one shown and refreshed the icon
C35_Witness ==
    /\ phase = "running"
    /\ Handler = "minute_timer"
    /\ Called("update_tray_icon")
    /\ current_date = today
    /\ icon.day = today.day

(***************************************************************************)
(* The frame of add and remove.                                            *)
(***************************************************************************)
KeysOf(d) == {SpecificKey(d), YearlyKey(d)}

\* every key but those of d holds afterwards what it held before
OthersKept(d) ==
    /\ \A k \in DOMAIN user_events \ KeysOf(d) :
          k \in DOMAIN user_events' /\ user_events'[k] = user_events[k]
    /\ DOMAIN user_events' \subseteq DOMAIN user_events \cup KeysOf(d)
    /\ \A k \in DOMAIN settings \ KeysOf(d) :
          k \in DOMAIN settings' /\ settings'[k] = settings[k]
    /\ DOMAIN settings' \subseteq DOMAIN settings \cup KeysOf(d)

\* C36: add(d, ...) and remove(d) change only d's specific key and d's
\* wildcard key, in the store and in the persisted store: every record under
\* another key, the specific keys of d's month and day in other years
\* included, is there and unchanged afterwards, and no other key appears; a
\* request without a date changes nothing.
C36_AddRemoveFrame ==
    [][(Ran("add_user_event") \/ Ran("remove_user_event")) =>
          IF args'.jdate = NoDate THEN UNCHANGED <<user_events, settings>>
          ELSE OthersKept(args'.jdate)]_vars

\* a record was added on 1403-01-01 while the store holds a record of the same
\* month and day in 1402 and one of the next day
C36_Witness ==
    /\ Handler = "add_user_event"
    /\ args.jdate = [year |-> 1403, month |-> 1, day |-> 1]
    /\ SpecificKey([year |-> 1402, month |-> 1, day |-> 1]) \in DOMAIN user_events
    /\ SpecificKey([year |-> 1403, month |-> 1, day |-> 2]) \in DOMAIN user_events
    /\ DOMAIN user_events \cap KeysOf(args.jdate) # {}

(***************************************************************************)
(* A one-off add over a yearly record.                                     *)
(***************************************************************************)
\* the dates of d's month and day in the years around those of the store
OtherYears(d) ==
    {[year |-> y, month |-> d.month, day |-> d.day] : y \in (1401..1404) \ {d.year}}

\* add(d, ..., yearly=false) has run on a store with a yearly record for d
OneOffAddedOverYearly ==
    /\ Ran("add_user_event")
    /\ args'.jdate # NoDate
    /\ ~args'.yearly
    /\ YearlyKey(args'.jdate) \in DOMAIN user_events

\* the specific key of d and the wildcard key of its month and day
Coexist(store, d) == SpecificKey(d) \in DOMAIN store /\ YearlyKey(d) \in DOMAIN store

\* C37: adding a one-off event on d when a yearly record exists for d's month
\* and day deletes the yearly record: afterwards the lookup of that month and
\* day in another year reports that year's own one-off record when there is
\* one, and no event otherwise; so a one-off record and the yearly record of
\* its month and day come to coexist only by a yearly add with a date of
\* another year on a store that already held the one-off record.
C37_OneOffAddDeletesYearly ==
    [][/\ OneOffAddedOverYearly =>
            /\ YearlyKey(args'.jdate) \notin DOMAIN user_events'
            /\ \A d3 \in OtherYears(args'.jdate) :
                  GetUserEventForDate(user_events', d3)
                      = IF SpecificKey(d3) \in DOMAIN user_events
                        THEN LET v == user_events[SpecificKey(d3)]
                             IN  Found(TRUE, v.d.text, FALSE, v.d.remove_after_finish)
                        ELSE NoEvent
       /\ \A d \in StoreDates :
            (Coexist(user_events', d) /\ ~Coexist(user_events, d)) =>
                /\ Ran("add_user_event")
                /\ args'.yearly
                /\ SameMonthDay(args'.jdate, d)
                /\ args'.jdate.year # d.year
                /\ SpecificKey(d) \in DOMAIN user_events]_vars

\* C37 as stated: after the one-off add over a yearly record, the lookup of
\* that month and day in every other year reports no event.
C37_OtherYearsReportNoEvent ==
    [][OneOffAddedOverYearly =>
          \A d3 \in OtherYears(args'.jdate) :
              GetUserEventForDate(user_events', d3) = NoEvent]_vars

\* a one-off add on 1403-01-01 has deleted the yearly record of 01-01 while
\* 1402-01-01 holds a one-off record of its own; 1404-01-01 reports no event
C37_Witness ==
    /\ Handler = "add_user_event"
    /\ args.jdate = [year |-> 1403, month |-> 1, day |-> 1]
    /\ ~args.yearly
    /\ Called("del_yearly_key")
    /\ SpecificKey([year |-> 1402, month |-> 1, day |-> 1]) \in DOMAIN user_events
    /\ GetUserEventForDate(user_events, [year |-> 1404, month |-> 1, day |-> 1]) = NoEvent

(***************************************************************************)
(* Add, then lookup.                                                       *)
(***************************************************************************)
\* C38: right after add(d, text, yearly, remove_after_finish) with a present
\* date and a non-empty text, whatever the store held before, lookup(d)
\* returns the text, the yearly flag given, and remove_after_finish as given
\* for a one-off event and false for a yearly one; the add completes.
C38_AddThenLookup ==
    (Handler = "add_user_event" /\ args.jdate # NoDate) =>
        /\ phase = "running"
        /\ args.text \in Texts
        /\ GetUserEventForDate(user_events, args.jdate)
               = Found(TRUE, args.text, args.yearly, ~args.yearly /\ args.raf)

\* an add has replaced a record stored under one of the keys of its date, and
\* the lookup returns the new text
C38_Witness ==
    /\ phase = "running"
    /\ Handler = "add_user_event"
    /\ args.jdate # NoDate
    /\ args.text = "B"
    /\ Called("del_specific_key") \/ Called("del_yearly_key")
    /\ GetUserEventForDate(user_events, args.jdate).text = "B"

=============================================================================
